---- MODULE Spec2Model ----
(***************************************************************************)
(* Model of the audio ingestion pipeline of backend/transcription_manager  *)
(* (TranscriptionManager), together with the parts of WhisperClient        *)
(* (backend/whisper_client.py) and SessionManager.add_transcription_text   *)
(* (backend/session_manager.py) that it calls.                             *)
(*                                                                         *)
(* The program runs on one asyncio event loop: a coroutine runs without    *)
(* interruption from one suspending await to the next, so each action      *)
(* below is the code between two suspension points.  The manager's         *)
(* self.lock and the store's per-session lock are only ever held over code *)
(* that does not suspend, so they are free at every scheduling point and   *)
(* acquiring them never suspends; they are not state of the model.         *)
(*                                                                         *)
(* A text is a sequence of characters; a character is a one-element token  *)
(* (a Japanese character is written by its reading, e.g. "ha").            *)
(***************************************************************************)
EXTENDS Naturals, Sequences, FiniteSets

\* ------------------------------------------------------------------ bounds
Sessions == {"s1", "s2"}   \* the conversations of the store
OneSession == {"s1"}       \* the conversation that records in Spec
Speakers == {"spk1"}
MaxChunks == 3        \* enqueue calls in one run
MaxStops == 1         \* stop_for_session calls in one run
MaxConcurrency == 2   \* the constructor's concurrency is 1..MaxConcurrency
MaxUploads == 2       \* file imports in one run
StoreGaps == {0, 9, 10}   \* utterances stored after the one a new text repeats
RingFills == {0, 9, 10, 11}   \* utterances accepted before the run begins
max_queue_size == 2   \* TranscriptionManager(max_queue_size=...), default 30
max_retries == 3      \* AudioChunk.max_retries
base_delay == 1       \* AudioChunk.backoff_delay(base_delay=1.0)
RECENT_LIMIT == 10

None == <<"None">>    \* Python's None where a text is expected

\* ------------------------------------------------------------------- texts
IsSpace(c) == c \in {" ", "\n"}

RECURSIVE LStrip(_)
LStrip(s) == IF s # <<>> /\ IsSpace(Head(s)) THEN LStrip(Tail(s)) ELSE s

RECURSIVE RStrip(_)
RStrip(s) ==
  IF s # <<>> /\ IsSpace(s[Len(s)]) THEN RStrip(SubSeq(s, 1, Len(s) - 1)) ELSE s

\* str.strip()
Strip(s) == RStrip(LStrip(s))

\* str.startswith(p)
StartsWith(s, p) == Len(p) <= Len(s) /\ SubSeq(s, 1, Len(p)) = p

\* p in s (substring)
Contains(s, p) ==
  \E i \in 1..(Len(s) + 1) :
    i + Len(p) - 1 <= Len(s) /\ SubSeq(s, i, i + Len(p) - 1) = p

\* str.lower() on one character: only cased letters change
LowerChar(c) == IF c = "A" THEN "a" ELSE IF c = "B" THEN "b" ELSE c

RECURSIVE DropSpaces(_)
DropSpaces(s) ==
  IF s = <<>> THEN <<>>
  ELSE IF IsSpace(Head(s)) THEN DropSpaces(Tail(s))
  ELSE <<Head(s)>> \o DropSpaces(Tail(s))

\* TranscriptionManager._normalize_text: re.sub(r'\s+', '', text).strip().lower()
\* (no_ws is bound as a value, so that it is computed once)
_normalize_text(text) ==
  CHOOSE key \in {[i \in 1..Len(Strip(no_ws)) |-> LowerChar(Strip(no_ws)[i])] :
                    no_ws \in {DropSpaces(text)}} : TRUE

\* "これは日本語の会話です。インタビューを行っています。"
BASE_PROMPT ==
  <<"ko", "re", "ha", "nichi", "hon", "go", "no", "kai", "wa", "de", "su", "maru",
    "I", "N", "TA", "BI", "YU", "-", "wo", "okona", "tte", "i", "ma", "su2", "maru">>

\* the alternatives of AIZUCHI_PATTERN, ^(...)$
AIZUCHI ==
  { <<"ha", "i">>, <<"e", "e">>, <<"u", "n">>, <<"a">>, <<"a", "a">>,
    <<"na", "ru", "ho", "do">>, <<"so", "u", "de", "su", "ne">>,
    <<"de", "su", "ne">>, <<"na", "n", "ka">>, <<"ma">>, <<"ma", "xa">>,
    <<"a", "no">>, <<"so", "no">>, <<"e", "xtu", "to">> }

\* (a filler anywhere in the text is enough)
MatchesAizuchi_Anywhere(cleaned) == \E a \in AIZUCHI : Contains(cleaned, a)

\* re.match(AIZUCHI_PATTERN, cleaned): $ also matches before one final newline
MatchesAizuchi(cleaned) ==
  \/ cleaned \in AIZUCHI
  \/ /\ cleaned # <<>>
     /\ cleaned[Len(cleaned)] = "\n"
     /\ SubSeq(cleaned, 1, Len(cleaned) - 1) \in AIZUCHI

\* "ご視聴ありがとうございました"
HALLUCINATION_THANKS ==
  <<"go2", "shi", "chou", "a", "ri", "ga", "to", "u", "go3", "za", "i", "ma",
    "shi2", "ta">>
\* "チャンネル登録"
HALLUCINATION_SUBSCRIBE == <<"CHA", "N", "NE", "RU", "tou", "roku">>

CharsOf(s) == {s[i] : i \in 1..Len(s)}

\* (the loop rule applies to every text of more than 4 characters)
_filter_transcription_ShortLoops(text) ==
  IF text = <<>> THEN None
  ELSE
    LET cleaned == Strip(text)
        mid == Len(cleaned) \div 2
    IN  IF cleaned = BASE_PROMPT THEN None
        ELSE IF MatchesAizuchi(cleaned) THEN None
        ELSE IF Len(cleaned) > 5 /\ Cardinality(CharsOf(cleaned)) = 1 THEN None
        ELSE IF Len(cleaned) > 4
                /\ SubSeq(cleaned, 1, mid) = SubSeq(cleaned, mid + 1, Len(cleaned))
             THEN None
        ELSE IF Contains(cleaned, HALLUCINATION_THANKS)
                \/ Contains(cleaned, HALLUCINATION_SUBSCRIBE)
             THEN None
        ELSE cleaned

\* (the rule of identical characters needs more than 6 of them)
_filter_transcription_SevenSame(text) ==
  IF text = <<>> THEN None
  ELSE
    LET cleaned == Strip(text)
        mid == Len(cleaned) \div 2
    IN  IF cleaned = BASE_PROMPT THEN None
        ELSE IF MatchesAizuchi(cleaned) THEN None
        ELSE IF Len(cleaned) > 6 /\ Cardinality(CharsOf(cleaned)) = 1 THEN None
        ELSE IF Len(cleaned) > 10
                /\ SubSeq(cleaned, 1, mid) = SubSeq(cleaned, mid + 1, Len(cleaned))
             THEN None
        ELSE IF Contains(cleaned, HALLUCINATION_THANKS)
                \/ Contains(cleaned, HALLUCINATION_SUBSCRIBE)
             THEN None
        ELSE cleaned

\* TranscriptionManager._filter_transcription: the cleaned text, or None
_filter_transcription(text) ==
  IF text = <<>> THEN None
  ELSE
    LET cleaned == Strip(text)
        mid == Len(cleaned) \div 2
    IN  IF cleaned = BASE_PROMPT THEN None
        ELSE IF MatchesAizuchi(cleaned) THEN None
        ELSE IF Len(cleaned) > 5 /\ Cardinality(CharsOf(cleaned)) = 1 THEN None
        ELSE IF Len(cleaned) > 10
                /\ SubSeq(cleaned, 1, mid) = SubSeq(cleaned, mid + 1, Len(cleaned))
             THEN None
        ELSE IF Contains(cleaned, HALLUCINATION_THANKS)
                \/ Contains(cleaned, HALLUCINATION_SUBSCRIBE)
             THEN None
        ELSE cleaned

\* ------------------------------------------------------------------- state
VARIABLES
  enabled,            \* whisper_client.enabled
  concurrency,        \* TranscriptionManager.concurrency
  queues,             \* TranscriptionManager.queues: session -> queued chunks
  tasks,              \* TranscriptionManager.tasks: session -> worker task ids
  session_locks,      \* TranscriptionManager.session_locks: session -> holder (0: free)
  _recent_texts,      \* session -> list of normalized keys
  _last_total_text,   \* session -> cumulative text
  _last_sent_text,    \* session -> last accepted text
  worker,             \* task id -> the worker task's position
  stops,              \* stop_for_session calls suspended in "await task"
  transcript,         \* SessionManager: session -> stored utterances
  recent_transcript,  \* Session.recent_transcript: the latest 20 utterances
  pending_ai_article_count,   \* Session.pending_ai_article_count
  pending_ai_question_count,  \* Session.pending_ai_question_count
  uploads,            \* the file imports made so far: text and outcome
  nextId,             \* chunks created so far + 1
  nstops,             \* stop_for_session calls made so far
  attempts,           \* chunk id -> submissions to the provider
  fate,               \* chunk id -> what became of the chunk
  delays,             \* chunk id -> backoff delays slept for it
  requeued,           \* chunk id -> puts by _requeue_chunk
  errors,             \* chunk id -> provider calls that failed
  home,               \* chunk id -> the session it was enqueued for
  dispatched,         \* session -> callback tasks created
  callbacks,          \* session -> the callback tasks, in the order of creation
  shut,               \* the shutdown() call
  completed,          \* session -> the provider calls that succeeded, in order
  appended            \* session -> chunks whose text was appended, in order

vars ==
  << enabled, concurrency, queues, tasks, session_locks, _recent_texts,
     _last_total_text, _last_sent_text, worker, stops, transcript, nextId,
     nstops, attempts, fate, delays, requeued, errors, home, dispatched,
     callbacks, shut, completed, appended, recent_transcript,
     pending_ai_article_count, pending_ai_question_count, uploads >>

\* the SessionManager's sessions and the imports that wrote to them
store ==
  << transcript, recent_transcript, pending_ai_article_count,
     pending_ai_question_count, uploads >>

mgr == << queues, tasks, session_locks, _recent_texts, _last_total_text, _last_sent_text >>
ghost == << attempts, fate, delays, requeued, errors, home >>

ChunkIds == 1..MaxChunks

EmptyDict == [k \in {} |-> 0]
\* d[k] = v
DictSet(d, k, v) == [x \in (DOMAIN d) \cup {k} |-> IF x = k THEN v ELSE d[x]]
\* d.pop(k, None)
DictPop(d, k) == [x \in (DOMAIN d) \ {k} |-> d[x]]

\* shutdown() has not been called
NotShut == [state |-> "idle", todo |-> << >>, known |-> {}, workers |-> {}, since |-> 0]

NoChunk == [id |-> 0, small |-> FALSE, speaker |-> "", speaker_name |-> "", retries |-> 0]

\* AudioChunk(...) as enqueue_audio_chunk builds it: retries = 0
\* (speaker: speaker_id; the name is the handler's default, websocket_handler.py
\* line 208, unless the message names the speaker)
AudioChunk(id, small, speaker) ==
  [id |-> id, small |-> small, speaker |-> speaker, speaker_name |-> "Interviewer",
   retries |-> 0]

RECURSIVE Pow2(_)
Pow2(n) == IF n = 0 THEN 1 ELSE 2 * Pow2(n - 1)

\* AudioChunk.backoff_delay: base_delay * 2 ** max(0, retries - 1)
backoff_delay(chunk) ==
  base_delay * Pow2(IF chunk.retries >= 1 THEN chunk.retries - 1 ELSE 0)

\* the sessions of the store hold no utterance yet
NewStore ==
  /\ transcript = [s \in Sessions |-> << >>]
  /\ recent_transcript = [s \in Sessions |-> << >>]
  /\ pending_ai_article_count = [s \in Sessions |-> 0]
  /\ pending_ai_question_count = [s \in Sessions |-> 0]
  /\ uploads = << >>

InitManager ==
  /\ enabled \in BOOLEAN
  /\ concurrency \in 1..MaxConcurrency
  /\ queues = EmptyDict
  /\ tasks = EmptyDict
  /\ session_locks = EmptyDict
  /\ _recent_texts = EmptyDict
  /\ _last_total_text = EmptyDict
  /\ _last_sent_text = EmptyDict
  /\ worker = << >>
  /\ stops = {}
  /\ nextId = 1
  /\ nstops = 0
  /\ attempts = [c \in ChunkIds |-> 0]
  /\ fate = [c \in ChunkIds |-> "new"]
  /\ delays = [c \in ChunkIds |-> << >>]
  /\ requeued = [c \in ChunkIds |-> 0]
  /\ errors = [c \in ChunkIds |-> 0]
  /\ home = [c \in ChunkIds |-> "none"]
  /\ dispatched = [s \in Sessions |-> 0]
  /\ callbacks = [s \in Sessions |-> << >>]
  /\ shut = NotShut
  /\ completed = [s \in Sessions |-> << >>]
  /\ appended = [s \in Sessions |-> << >>]

Init == InitManager /\ NewStore

\* ------------------------------------------------------------ queue policy
\* ticket: the task's place in the wait list of the session lock (0: not waiting)
NewWorker(sid) ==
  [sid |-> sid, pc |-> "get", chunk |-> NoChunk, cancelled |-> FALSE, result |-> None,
   ticket |-> 0]

\* _start_workers: `concurrency` new tasks, appended to the worker table
WorkersStarted(w, sid) ==
  [t \in 1..(Len(w) + concurrency) |-> IF t <= Len(w) THEN w[t] ELSE NewWorker(sid)]

\* (only the first started task is recorded)
StartedIds_One(w) == <<Len(w) + 1>>

\* the task ids _start_workers puts into self.tasks[session_id]
StartedIds(w) == [i \in 1..concurrency |-> Len(w) + i]

\* (a full queue keeps its chunks and loses the new one)
EnqueuePut_DropNewest(q, chunk) ==
  IF Len(q) < max_queue_size THEN q \o <<chunk>> ELSE q

\* (a put that ignores the capacity)
EnqueuePut_Unbounded(q, chunk) == q \o <<chunk>>

\* enqueue_audio_chunk, lines 181-190: put_nowait; on QueueFull drop the oldest
EnqueuePut(q, chunk) ==
  IF Len(q) < max_queue_size THEN q \o <<chunk>>
  ELSE IF q # << >> THEN Tail(q) \o <<chunk>>
  ELSE q

\* (requeue with the drop-oldest policy of enqueue)
RequeuePut_DropOldest(q, chunk) ==
  IF Len(q) < max_queue_size THEN q \o <<chunk>>
  ELSE IF q # << >> THEN Tail(q) \o <<chunk>>
  ELSE q

\* (a requeue that puts the retried chunk in front of the queued chunks)
RequeuePut_AtHead(q, chunk) ==
  IF Len(q) < max_queue_size THEN <<chunk>> \o q ELSE q

\* _requeue_chunk, lines 202-209: put_nowait; on QueueFull the chunk is dropped
RequeuePut(q, chunk) ==
  IF Len(q) < max_queue_size THEN q \o <<chunk>> ELSE q

\* the chunk a full queue loses to EnqueuePut (0: none)
Evicted(q) == IF Len(q) >= max_queue_size /\ q # << >> THEN Head(q).id ELSE 0

\* enqueue_audio_chunk, lines 166-190, with the chunk of lines 174-179 built
EnqueueChunk(sid, chunk) ==
  LET created == sid \notin DOMAIN queues
      q == IF created THEN << >> ELSE queues[sid]
      out == Evicted(q)
  IN  /\ queues' = DictSet(queues, sid, EnqueuePut(q, chunk))
      /\ tasks' = IF created THEN DictSet(tasks, sid, StartedIds(worker)) ELSE tasks
      /\ worker' = IF created THEN WorkersStarted(worker, sid) ELSE worker
      /\ fate' = [c \in ChunkIds |->
                    IF c = out THEN "evicted" ELSE IF c = nextId THEN "queued" ELSE fate[c]]
      /\ UNCHANGED << session_locks, _recent_texts, _last_total_text,
                      _last_sent_text, attempts, delays, requeued, errors >>

\* enqueue_audio_chunk, lines 166-190: the call with the client enabled
EnqueueAccepted(sid, small, speaker) ==
  EnqueueChunk(sid, AudioChunk(nextId, small, speaker))

\* the part of every enqueue call that does not depend on the client
EnqueueFrame(sid) ==
  /\ nextId' = nextId + 1
  /\ home' = [c \in ChunkIds |-> IF c = nextId THEN sid ELSE home[c]]
  /\ UNCHANGED << enabled, concurrency, stops, store, nstops, dispatched,
                  callbacks, shut, completed, appended >>

\* (a put that waits for room, as `await queue.put(chunk)` would)
enqueue_awaiting_room(sid, small, speaker) ==
  /\ EnqueueFrame(sid)
  /\ enabled
  /\ sid \in DOMAIN queues => Len(queues[sid]) < max_queue_size
  /\ EnqueueAccepted(sid, small, speaker)

\* (the call without the check of whisper_client.enabled)
enqueue_unchecked(sid, small, speaker) ==
  /\ EnqueueFrame(sid)
  /\ EnqueueAccepted(sid, small, speaker)

\* enqueue_audio_chunk, lines 153-190
enqueue_audio_chunk(sid, small, speaker) ==
  /\ EnqueueFrame(sid)
  /\ IF ~enabled
     THEN UNCHANGED << mgr, worker, attempts, fate, delays, requeued, errors >>
     ELSE EnqueueAccepted(sid, small, speaker)

\* SpeakerNames: the names audio_chunk messages give their speakers
SpeakerNames == {"Interviewer", "Guest"}

\* the transport layer delivers an audio_chunk message of 4000 bytes or more
\* that names its speaker (websocket_handler.py, lines 208-209), client enabled
EnqueueNamed(S, Sp) ==
  /\ nextId <= MaxChunks
  /\ enabled
  /\ \E sid \in S, speaker \in Sp, name \in SpeakerNames :
       /\ EnqueueFrame(sid)
       /\ EnqueueChunk(sid, [AudioChunk(nextId, FALSE, speaker)
                               EXCEPT !.speaker_name = name])

\* the transport layer delivers an audio_chunk message of a conversation in S
EnqueueFor(S) ==
  /\ nextId <= MaxChunks
  /\ \E sid \in S, small \in BOOLEAN, speaker \in Speakers :
       enqueue_audio_chunk(sid, small, speaker)

EnqueueCall == EnqueueFor(OneSession)

\* ---------------------------------------------------------- provider call
\* what the provider (client.audio.transcriptions.create) does with one call
RawResults == { <<"ko", "n">>, <<"ko", "n", "ni">> }
Responses ==
  {[kind |-> "error", text |-> << >>], [kind |-> "none", text |-> << >>]}
    \cup {[kind |-> "text", text |-> r] : r \in RawResults}

\* WhisperClient.transcribe_audio_chunk, lines 99-129: the cases that return
\* None before the provider is called (chunk.small: fewer than 4000 bytes)
WhisperSkips(chunk) == ~enabled \/ chunk.small

\* WhisperClient.transcribe_audio_chunk, lines 131-157: the text it returns for
\* the provider's response; a provider error is caught and None returned
transcribe_audio_chunk(resp) ==
  IF resp.kind = "error" THEN None
  ELSE IF resp.kind = "none" \/ resp.text = << >> THEN None
  ELSE IF Strip(resp.text) = << >> THEN None
  ELSE Strip(resp.text)

\* dict.get(k): None when absent
TextOf(d, sid) == IF sid \in DOMAIN d THEN d[sid] ELSE None
ListOf(d, sid) == IF sid \in DOMAIN d THEN d[sid] ELSE << >>

InList(x, l) == \E i \in 1..Len(l) : l[i] = x

\* --------------------------------------------------------------- the store
\* (a store that appends whatever it is given)
StoreRefuses_Never(stored, text, speaker) == FALSE

\* (only the last 3 utterances are compared)
StoreRefuses_LastThree(stored, text, speaker) ==
  \E normalized_text \in {Strip(text)} :
    \E norm_key \in {_normalize_text(normalized_text)} :
      LET recent_3 == IF Len(stored) >= 3
                      THEN SubSeq(stored, Len(stored) - 2, Len(stored)) ELSE stored
      IN  \/ normalized_text = << >>
          \/ norm_key = << >>
          \/ \E i \in 1..Len(recent_3) :
               /\ recent_3[i].speaker_id = speaker
               /\ \/ _normalize_text(recent_3[i].text) = norm_key
                  \/ Strip(recent_3[i].text) = normalized_text

\* SessionManager.add_transcription_text, lines 473-497: TRUE when the text is
\* refused (empty, or a duplicate among the last 10 utterances of the speaker)
StoreRefuses(stored, text, speaker) ==
  \E normalized_text \in {Strip(text)} :
    \E norm_key \in {_normalize_text(normalized_text)} :
      LET recent_10 == IF Len(stored) >= 10
                       THEN SubSeq(stored, Len(stored) - 9, Len(stored)) ELSE stored
      IN  \/ normalized_text = << >>
          \/ norm_key = << >>
          \/ \E i \in 1..Len(recent_10) :
               /\ recent_10[i].speaker_id = speaker
               /\ \/ _normalize_text(recent_10[i].text) = norm_key
                  \/ Strip(recent_10[i].text) = normalized_text

\* the Utterance of lines 502-508 (id and timestamp left out)
\* (a store that gives every utterance the default speaker name)
Utterance_DefaultName(text, speaker_id, speaker_name) ==
  [speaker_id |-> speaker_id, speaker_name |-> "Interviewer", text |-> Strip(text)]

Utterance(text, speaker_id, speaker_name) ==
  [speaker_id |-> speaker_id, speaker_name |-> speaker_name, text |-> Strip(text)]

\* l[-n:]
LastN(l, n) == IF Len(l) > n THEN SubSeq(l, Len(l) - n + 1, Len(l)) ELSE l

\* SessionManager.add_transcription_text, lines 499-521: the utterance is stored
StoreAppend(sid, u) ==
  /\ transcript' = [transcript EXCEPT ![sid] = Append(@, u)]
  /\ recent_transcript' = [recent_transcript EXCEPT ![sid] = LastN(Append(@, u), 20)]
  /\ pending_ai_article_count' = [pending_ai_article_count EXCEPT ![sid] = @ + 1]
  /\ pending_ai_question_count' = [pending_ai_question_count EXCEPT ![sid] = @ + 1]

\* SessionManager.add_transcription_text, lines 473-497: None is returned
StoreKeeps ==
  UNCHANGED << transcript, recent_transcript, pending_ai_article_count,
               pending_ai_question_count >>

\* ----------------------------------------------------------- reconciliation
\* (a result equal to the cumulative text is taken as a new text)
Increment_NeverSame(prev_total, normalized) ==
  IF prev_total # None /\ Len(normalized) > Len(prev_total)
     /\ StartsWith(normalized, prev_total)
  THEN LStrip(SubSeq(normalized, Len(prev_total) + 1, Len(normalized)))
  ELSE normalized

\* (the result is never cut: the whole text is the increment)
Increment_Whole(prev_total, normalized) ==
  IF prev_total # None /\ normalized = prev_total THEN None ELSE normalized

\* (the prefix is removed but the leading whitespace is kept)
Increment_NoTrim(prev_total, normalized) ==
  IF prev_total # None /\ Len(normalized) > Len(prev_total)
     /\ StartsWith(normalized, prev_total)
  THEN SubSeq(normalized, Len(prev_total) + 1, Len(normalized))
  ELSE IF prev_total # None /\ normalized = prev_total THEN None
  ELSE normalized

\* (a result that is not longer than the cumulative text is taken as a repeat)
Increment_KeepsLongest(prev_total, normalized) ==
  IF prev_total # None /\ Len(normalized) > Len(prev_total)
     /\ StartsWith(normalized, prev_total)
  THEN LStrip(SubSeq(normalized, Len(prev_total) + 1, Len(normalized)))
  ELSE IF prev_total # None /\ Len(normalized) <= Len(prev_total) THEN None
  ELSE normalized

\* __process_chunk_locked, lines 292-304: the increment of `normalized` against
\* the cumulative text, or None when it repeats the cumulative text
Increment(prev_total, normalized) ==
  IF prev_total # None /\ Len(normalized) > Len(prev_total)
     /\ StartsWith(normalized, prev_total)
  THEN LStrip(SubSeq(normalized, Len(prev_total) + 1, Len(normalized)))
  ELSE IF prev_total # None /\ normalized = prev_total THEN None
  ELSE normalized

\* __process_chunk_locked, lines 283-361: how a chunk's transcription is resolved
\* from the locals normalized (line 290), new_text (297-304), norm_key (314) and
\* filtered_text (339)
Outcome(sid, transcription, normalized, new_text, norm_key, filtered_text, speaker) ==
  LET last_sent == TextOf(_last_sent_text, sid)
      recent_list == ListOf(_recent_texts, sid)
  IN  IF transcription = None \/ transcription = << >> THEN "silence"
      ELSE IF normalized = << >> THEN "silence"
      ELSE IF new_text = None THEN "same_total"
      ELSE IF last_sent # None /\ last_sent = Strip(new_text) THEN "same_sent"
      ELSE IF norm_key = << >> THEN "empty_key"
      ELSE IF InList(norm_key, recent_list) THEN "in_ring"
      ELSE IF filtered_text = None THEN "filtered"
      ELSE IF sid \notin DOMAIN transcript THEN "store_raises"
      ELSE IF StoreRefuses(transcript[sid], filtered_text, speaker)
           THEN "store_refuses"
      ELSE "accepted"

\* (a full ring that keeps its keys and loses the new one)
RingPush_DropsNewest(l, key) == IF Len(l) + 1 > RECENT_LIMIT THEN l ELSE l \o <<key>>

\* recent_list.append(norm_key); if len(recent_list) > 10: del recent_list[0]
RingPush(l, key) ==
  IF Len(l) + 1 > RECENT_LIMIT THEN Tail(l \o <<key>>) ELSE l \o <<key>>

\* -------------------------------------------------------------- the worker
Running(t) == t \in DOMAIN worker /\ ~worker[t].cancelled /\ worker[t].pc # "done"

\* (a lock that never makes a worker wait)
LockHeld_Never(sid) == FALSE

\* (a lock that is never found free)
LockHeld_Always(sid) == TRUE

LockHeld(sid) == sid \in DOMAIN session_locks /\ session_locks[sid] # 0

\* the workers suspended in the acquire of the session lock (_process_chunk,
\* line 243); the cancel of a task cancels its place in the lock's wait list
LockWaiters(sid) ==
  {u \in DOMAIN worker :
     worker[u].sid = sid /\ worker[u].pc = "lock" /\ ~worker[u].cancelled}

\* Lock.acquire returns to worker t: t leaves the wait list (if it was in it)
\* and the tasks behind it move up
Acquired(t) ==
  [u \in DOMAIN worker |->
     IF u = t THEN [worker[u] EXCEPT !.ticket = 0]
     ELSE IF /\ u \in LockWaiters(worker[t].sid)
             /\ worker[t].ticket > 0
             /\ worker[u].ticket > worker[t].ticket
     THEN [worker[u] EXCEPT !.ticket = @ - 1]
     ELSE worker[u]]

\* _process_chunk with the session lock free: the lock is taken and
\* __process_chunk_locked runs up to the provider call (lines 243-258)
BeginChunk(t, chunk) ==
  LET sid == worker[t].sid
  IN  IF WhisperSkips(chunk)
      THEN /\ worker' = [Acquired(t) EXCEPT ![t].pc = "get", ![t].chunk = NoChunk]
           /\ session_locks' = DictSet(session_locks, sid, 0)
           /\ fate' = [fate EXCEPT ![chunk.id] = "skipped"]
           /\ UNCHANGED attempts
      ELSE /\ worker' = [Acquired(t) EXCEPT ![t].pc = "transcribe", ![t].chunk = chunk]
           /\ session_locks' = DictSet(session_locks, sid, t)
           /\ fate' = [fate EXCEPT ![chunk.id] = "transcribing"]
           /\ attempts' = [attempts EXCEPT ![chunk.id] = @ + 1]

\* _worker_loop, line 222: queue.get() returns the oldest chunk
WorkerGet(t) ==
  /\ Running(t)
  /\ worker[t].pc = "get"
  /\ worker[t].sid \in DOMAIN queues
  /\ queues[worker[t].sid] # << >>
  /\ LET sid == worker[t].sid
         chunk == Head(queues[sid])
     IN  /\ queues' = [queues EXCEPT ![sid] = Tail(@)]
         /\ IF LockHeld(sid) \/ LockWaiters(sid) # {}
            THEN /\ worker' = [worker EXCEPT ![t].pc = "lock", ![t].chunk = chunk,
                                              ![t].ticket = Cardinality(LockWaiters(sid)) + 1]
                 /\ fate' = [fate EXCEPT ![chunk.id] = "waiting"]
                 /\ UNCHANGED << session_locks, attempts >>
            ELSE BeginChunk(t, chunk)
  /\ UNCHANGED << enabled, concurrency, tasks, _recent_texts, _last_total_text,
                  _last_sent_text, stops, store, nextId, nstops, delays,
                  requeued, errors, home, dispatched, callbacks, shut,
                  completed, appended >>

\* (a waiting worker that enters although the lock is held)
WorkerLock_Barges(t) ==
  /\ Running(t)
  /\ worker[t].pc = "lock"
  /\ BeginChunk(t, worker[t].chunk)
  /\ UNCHANGED << enabled, concurrency, queues, tasks, _recent_texts,
                  _last_total_text, _last_sent_text, stops, store, nextId,
                  nstops, delays, requeued, errors, home, dispatched, callbacks,
                  shut, completed, appended >>

\* _process_chunk, line 243: a worker that waited for the session lock gets it;
\* asyncio.Lock wakes its waiters in the order of their arrival
WorkerLock(t) ==
  /\ Running(t)
  /\ worker[t].pc = "lock"
  /\ ~LockHeld(worker[t].sid)
  /\ \A u \in LockWaiters(worker[t].sid) : worker[t].ticket <= worker[u].ticket
  /\ BeginChunk(t, worker[t].chunk)
  /\ UNCHANGED << enabled, concurrency, queues, tasks, _recent_texts,
                  _last_total_text, _last_sent_text, stops, store, nextId,
                  nstops, delays, requeued, errors, home, dispatched, callbacks,
                  shut, completed, appended >>

\* the worker leaves _process_chunk: lock released, task_done, back to queue.get()
\* (a worker that takes every outcome but acceptance for a failure: backoff
\* and requeue)
Idle_Sleeps(w, t) ==
  [w EXCEPT ![t].pc = "sleep", ![t].chunk.retries = @ + 1, ![t].result = None]

\* (a worker that goes on to the broadcast whatever the outcome was)
Idle_Broadcasts(w, t) == [w EXCEPT ![t].pc = "broadcast", ![t].result = None]

\* (a worker whose loop ends with the chunk)
Idle_Ends(w, t) == [w EXCEPT ![t].pc = "done", ![t].chunk = NoChunk, ![t].result = None]

Idle(w, t) == [w EXCEPT ![t].pc = "get", ![t].chunk = NoChunk, ![t].result = None]
\* (a lock that stays with its holder when the section is left)
Released_Keeps(sid) == session_locks

Released(sid) == IF sid \in DOMAIN session_locks
                 THEN [session_locks EXCEPT ![sid] = 0] ELSE session_locks

\* a provider call that returned a text or nothing (not an error)
Succeeded(resp) == resp.kind # "error"

\* WhisperClient.transcribe_audio_chunk, lines 131-157: the executor's call to
\* the provider is over and the client's return value is set; the worker is
\* resumed with it in a later step of the event loop
ProviderCompletes(t, resp) ==
  /\ Running(t)
  /\ worker[t].pc = "transcribe"
  /\ LET sid == worker[t].sid
         chunk == worker[t].chunk
     IN  /\ worker' = [worker EXCEPT ![t].pc = "result",
                                     ![t].result = transcribe_audio_chunk(resp)]
         /\ errors' = [errors EXCEPT ![chunk.id] =
                         IF Succeeded(resp) THEN @ ELSE @ + 1]
         /\ fate' = [fate EXCEPT ![chunk.id] =
                       IF Succeeded(resp) THEN "transcribed" ELSE "failed"]
         /\ completed' = [completed EXCEPT ![sid] =
                            IF Succeeded(resp)
                            THEN Append(@, [id |-> chunk.id,
                                            text |-> transcribe_audio_chunk(resp),
                                            stops |-> nstops])
                            ELSE @]
  /\ UNCHANGED << enabled, concurrency, mgr, stops, store, nextId, nstops,
                  attempts, delays, requeued, home, dispatched, callbacks, shut,
                  appended >>

\* __process_chunk_locked, lines 283-361, entered with the client's return value:
\* reconcile, filter, append to the store; an accepted text goes on to broadcast
ProviderReturn(t) ==
  /\ Running(t)
  /\ worker[t].pc = "result"
  /\ \E normalized \in {Strip(worker[t].result)} :
     \E new_text \in {Increment(TextOf(_last_total_text, worker[t].sid), normalized)} :
     \E norm_key \in {_normalize_text(new_text)} :
     \E filtered_text \in {_filter_transcription(new_text)} :
     \E result \in {Outcome(worker[t].sid, worker[t].result, normalized, new_text,
                             norm_key, filtered_text, worker[t].chunk.speaker)} :
     LET sid == worker[t].sid
         chunk == worker[t].chunk
         touched_ring == result \in {"in_ring", "filtered", "store_raises",
                                     "store_refuses", "accepted"}
     IN  /\ fate' = [fate EXCEPT ![chunk.id] = IF @ = "failed" THEN @ ELSE result]
         /\ _last_total_text' =
              IF result \in {"silence", "same_total", "store_raises"}
              THEN _last_total_text
              ELSE DictSet(_last_total_text, sid, normalized)
         /\ _recent_texts' =
              IF result = "accepted"
              THEN DictSet(_recent_texts, sid,
                           RingPush(ListOf(_recent_texts, sid), norm_key))
              ELSE IF touched_ring
              THEN DictSet(_recent_texts, sid, ListOf(_recent_texts, sid))
              ELSE _recent_texts
         /\ _last_sent_text' =
              IF result = "accepted"
              THEN DictSet(_last_sent_text, sid, Strip(filtered_text))
              ELSE _last_sent_text
         /\ IF result = "accepted"
            THEN StoreAppend(sid, Utterance(filtered_text, chunk.speaker, chunk.speaker_name))
            ELSE StoreKeeps
         /\ appended' =
              IF result = "accepted"
              THEN [appended EXCEPT ![sid] = Append(@, chunk.id)] ELSE appended
         /\ IF result = "accepted"
            THEN /\ worker' = [worker EXCEPT ![t].pc = "broadcast", ![t].result = None]
                 /\ UNCHANGED session_locks
            ELSE /\ worker' = Idle(worker, t)
                 /\ session_locks' = Released(sid)
  /\ UNCHANGED << enabled, concurrency, queues, tasks, stops, nextId, nstops,
                  attempts, delays, requeued, errors, home, dispatched, callbacks,
                  shut, completed, uploads >>

\* __process_chunk_locked, line 345, with a store whose _save_session raises
\* (session_manager.py, lines 321-329 and 520: the file cannot be written): the
\* utterance is in the session's transcript, the exception leaves the section
\* before line 352 and _worker_loop logs it (lines 229-230) and goes on
SaveSessionRaises(t) ==
  /\ Running(t)
  /\ worker[t].pc = "result"
  /\ \E normalized \in {Strip(worker[t].result)} :
     \E new_text \in {Increment(TextOf(_last_total_text, worker[t].sid), normalized)} :
     \E norm_key \in {_normalize_text(new_text)} :
     \E filtered_text \in {_filter_transcription(new_text)} :
     \E result \in {Outcome(worker[t].sid, worker[t].result, normalized, new_text,
                             norm_key, filtered_text, worker[t].chunk.speaker)} :
     LET sid == worker[t].sid
         chunk == worker[t].chunk
     IN  /\ result = "accepted"
         /\ StoreAppend(sid, Utterance(filtered_text, chunk.speaker, chunk.speaker_name))
         /\ appended' = [appended EXCEPT ![sid] = Append(@, chunk.id)]
         /\ fate' = [fate EXCEPT ![chunk.id] = "store_error"]
         /\ _recent_texts' = DictSet(_recent_texts, sid, ListOf(_recent_texts, sid))
         /\ worker' = Idle(worker, t)
         /\ session_locks' = Released(sid)
  /\ UNCHANGED << enabled, concurrency, queues, tasks, _last_total_text,
                  _last_sent_text, stops, nextId, nstops, attempts, delays,
                  requeued, errors, home, dispatched, callbacks, shut, completed,
                  uploads >>

\* every callback task of the conversation has ended
CallbacksOver(sid) ==
  \A i \in 1..Len(callbacks[sid]) : callbacks[sid][i] \in {"done", "raised"}

\* (the worker creates the next callback only when the earlier ones are over)
BroadcastDone_AwaitsCallback(t) ==
  /\ Running(t)
  /\ worker[t].pc = "broadcast"
  /\ CallbacksOver(worker[t].sid)
  /\ dispatched' = [dispatched EXCEPT ![worker[t].sid] = @ + 1]
  /\ callbacks' = [callbacks EXCEPT ![worker[t].sid] = Append(@, "created")]
  /\ worker' = [worker EXCEPT ![t].pc = "get", ![t].chunk = NoChunk, ![t].result = None]
  /\ session_locks' = IF worker[t].sid \in DOMAIN session_locks
                      THEN [session_locks EXCEPT ![worker[t].sid] = 0]
                      ELSE session_locks
  /\ fate' = [fate EXCEPT ![worker[t].chunk.id] = "notified"]
  /\ UNCHANGED << enabled, concurrency, queues, tasks, _recent_texts,
                  _last_total_text, _last_sent_text, stops, store, nextId,
                  nstops, attempts, delays, requeued, errors, home, shut,
                  completed, appended >>

\* (two callback tasks are created for one appended utterance)
BroadcastDone_Twice(t) ==
  /\ Running(t)
  /\ worker[t].pc = "broadcast"
  /\ dispatched' = [dispatched EXCEPT ![worker[t].sid] = @ + 2]
  /\ callbacks' = [callbacks EXCEPT ![worker[t].sid] = @ \o <<"created", "created">>]
  /\ worker' = [worker EXCEPT ![t].pc = "get", ![t].chunk = NoChunk, ![t].result = None]
  /\ session_locks' = IF worker[t].sid \in DOMAIN session_locks
                      THEN [session_locks EXCEPT ![worker[t].sid] = 0]
                      ELSE session_locks
  /\ fate' = [fate EXCEPT ![worker[t].chunk.id] = "notified"]
  /\ UNCHANGED << enabled, concurrency, queues, tasks, _recent_texts,
                  _last_total_text, _last_sent_text, stops, store, nextId,
                  nstops, attempts, delays, requeued, errors, home, shut,
                  completed, appended >>

\* __process_chunk_locked, lines 367-391: both broadcasts are over; the callback
\* task is created and the worker returns to queue.get()
BroadcastDone(t) ==
  /\ Running(t)
  /\ worker[t].pc = "broadcast"
  /\ dispatched' = [dispatched EXCEPT ![worker[t].sid] = @ + 1]
  /\ callbacks' = [callbacks EXCEPT ![worker[t].sid] = Append(@, "created")]
  /\ worker' = Idle(worker, t)
  /\ session_locks' = Released(worker[t].sid)
  /\ fate' = [fate EXCEPT ![worker[t].chunk.id] = "notified"]
  /\ UNCHANGED << enabled, concurrency, queues, tasks, _recent_texts,
                  _last_total_text, _last_sent_text, stops, store, nextId,
                  nstops, attempts, delays, requeued, errors, home, shut,
                  completed, appended >>

\* ConnectionManager.broadcast, lines 56-65: a connection is added or removed
\* while send_json is awaited, and the loop over the set raises RuntimeError
\* outside its try; the exception ends __process_chunk_locked before line 384
\* and is logged by _worker_loop (lines 229-232)
BroadcastRaises(t) ==
  /\ Running(t)
  /\ worker[t].pc = "broadcast"
  /\ worker' = Idle(worker, t)
  /\ session_locks' = Released(worker[t].sid)
  /\ UNCHANGED << enabled, concurrency, queues, tasks, _recent_texts,
                  _last_total_text, _last_sent_text, stops, store, nextId,
                  nstops, ghost, dispatched, callbacks, shut, completed, appended >>

\* d with its first element equal to `from` replaced by `to`
Advance(d, from, to) ==
  LET i == CHOOSE k \in 1..Len(d) : d[k] = from /\ \A j \in 1..(k - 1) : d[j] # from
  IN  [d EXCEPT ![i] = to]

\* _notify_transcription_appended, lines 405-413: the event loop starts the
\* oldest callback task not yet started, which invokes on_transcription_appended
CallbackStart(sid) ==
  /\ \E i \in 1..Len(callbacks[sid]) : callbacks[sid][i] = "created"
  /\ callbacks' = [callbacks EXCEPT ![sid] = Advance(@, "created", "running")]
  /\ UNCHANGED << enabled, concurrency, mgr, worker, stops, store, nextId,
                  nstops, ghost, dispatched, shut, completed, appended >>

\* _notify_transcription_appended, lines 413-423, and _handle_task_exception,
\* lines 393-403: the callback returns, or raises and the exception is logged
\* at the task boundary
CallbackEnd(sid, ok) ==
  /\ \E i \in 1..Len(callbacks[sid]) : callbacks[sid][i] = "running"
  /\ callbacks' = [callbacks EXCEPT ![sid] =
                     Advance(@, "running", IF ok THEN "done" ELSE "raised")]
  /\ UNCHANGED << enabled, concurrency, mgr, worker, stops, store, nextId,
                  nstops, ghost, dispatched, shut, completed, appended >>

\* (retry only while retries < max_retries)
ShouldRetry_Strict(chunk) == chunk.retries < max_retries

\* __process_chunk_locked, line 261: retry while retries <= max_retries
ShouldRetry(chunk) == chunk.retries <= max_retries

\* (a failed attempt that gives the lock back before it sleeps)
TranscribeRaises_SleepsUnlocked(t) ==
  /\ Running(t)
  /\ worker[t].pc = "transcribe"
  /\ LET sid == worker[t].sid
         chunk == [worker[t].chunk EXCEPT !.retries = @ + 1]
     IN  /\ errors' = [errors EXCEPT ![chunk.id] = @ + 1]
         /\ IF ShouldRetry(chunk)
            THEN /\ worker' = [worker EXCEPT ![t].pc = "sleep", ![t].chunk = chunk]
                 /\ delays' = [delays EXCEPT ![chunk.id] = Append(@, backoff_delay(chunk))]
                 /\ fate' = [fate EXCEPT ![chunk.id] = "backoff"]
                 /\ session_locks' = Released(sid)
            ELSE /\ worker' = Idle(worker, t)
                 /\ session_locks' = Released(sid)
                 /\ fate' = [fate EXCEPT ![chunk.id] = "abandoned"]
                 /\ UNCHANGED delays
  /\ UNCHANGED << enabled, concurrency, queues, tasks, _recent_texts,
                  _last_total_text, _last_sent_text, stops, store, nextId,
                  nstops, attempts, requeued, home, dispatched, callbacks, shut,
                  completed, appended >>

\* __process_chunk_locked, lines 259-281: the handler of an exception raised by
\* the awaited client call
TranscribeRaises(t) ==
  /\ Running(t)
  /\ worker[t].pc = "transcribe"
  /\ LET sid == worker[t].sid
         chunk == [worker[t].chunk EXCEPT !.retries = @ + 1]
     IN  /\ errors' = [errors EXCEPT ![chunk.id] = @ + 1]
         /\ IF ShouldRetry(chunk)
            THEN /\ worker' = [worker EXCEPT ![t].pc = "sleep", ![t].chunk = chunk]
                 /\ delays' = [delays EXCEPT ![chunk.id] = Append(@, backoff_delay(chunk))]
                 /\ fate' = [fate EXCEPT ![chunk.id] = "backoff"]
                 /\ UNCHANGED session_locks
            ELSE /\ worker' = Idle(worker, t)
                 /\ session_locks' = Released(sid)
                 /\ fate' = [fate EXCEPT ![chunk.id] = "abandoned"]
                 /\ UNCHANGED delays
  /\ UNCHANGED << enabled, concurrency, queues, tasks, _recent_texts,
                  _last_total_text, _last_sent_text, stops, store, nextId,
                  nstops, attempts, requeued, home, dispatched, callbacks, shut,
                  completed, appended >>

\* _requeue_chunk, entered when asyncio.sleep(delay) is over (lines 271-273)
_requeue_chunk(t) ==
  /\ Running(t)
  /\ worker[t].pc = "sleep"
  /\ LET sid == worker[t].sid
         chunk == worker[t].chunk
         created == sid \notin DOMAIN queues
         q == IF created THEN << >> ELSE queues[sid]
         put == Len(RequeuePut(q, chunk)) > Len(q)
         w == IF created THEN WorkersStarted(worker, sid) ELSE worker
     IN  /\ queues' = DictSet(queues, sid, RequeuePut(q, chunk))
         /\ tasks' = IF created THEN DictSet(tasks, sid, StartedIds(worker)) ELSE tasks
         /\ worker' = Idle(w, t)
         /\ session_locks' = Released(sid)
         /\ requeued' = [requeued EXCEPT ![chunk.id] = IF put THEN @ + 1 ELSE @]
         /\ fate' = [fate EXCEPT ![chunk.id] = IF put THEN "queued" ELSE "requeue_dropped"]
  /\ UNCHANGED << enabled, concurrency, _recent_texts, _last_total_text,
                  _last_sent_text, stops, store, nextId, nstops, attempts,
                  delays, errors, home, dispatched, callbacks, shut, completed,
                  appended >>

\* ------------------------------------------------------------------- stop
TaskSet(sid) == IF sid \in DOMAIN tasks
                THEN {tasks[sid][i] : i \in 1..Len(tasks[sid])} ELSE {}

\* d.pop(k, None) for every k of S
DictPopAll(d, S) == [x \in (DOMAIN d) \ S |-> d[x]]

\* the chunks of a list of chunks
IdsOf(q) == {q[i].id : i \in 1..Len(q)}

\* (a stop that pops the entries of every conversation)
StopPops_Everyone(S) ==
  /\ worker' = [t \in DOMAIN worker |->
                  IF (\E s \in S : t \in TaskSet(s)) /\ worker[t].pc # "done"
                  THEN [worker[t] EXCEPT !.cancelled = TRUE, !.ticket = 0] ELSE worker[t]]
  /\ tasks' = DictPopAll(tasks, S)
  /\ queues' = DictPopAll(queues, S)
  /\ _recent_texts' = DictPopAll(_recent_texts, Sessions)
  /\ _last_total_text' = DictPopAll(_last_total_text, Sessions)
  /\ _last_sent_text' = DictPopAll(_last_sent_text, Sessions)
  /\ session_locks' = DictPopAll(session_locks, S)

\* (a stop that leaves the dedup ring of the conversation in place)
StopPops_KeepsRing(S) ==
  /\ worker' = [t \in DOMAIN worker |->
                  IF (\E s \in S : t \in TaskSet(s)) /\ worker[t].pc # "done"
                  THEN [worker[t] EXCEPT !.cancelled = TRUE, !.ticket = 0] ELSE worker[t]]
  /\ tasks' = DictPopAll(tasks, S)
  /\ queues' = DictPopAll(queues, S)
  /\ _recent_texts' = _recent_texts
  /\ _last_total_text' = DictPopAll(_last_total_text, S)
  /\ _last_sent_text' = DictPopAll(_last_sent_text, S)
  /\ session_locks' = DictPopAll(session_locks, S)

\* stop_for_session, lines 431-439, for each conversation of S: under self.lock
\* its tasks are cancelled and its entries popped
StopPops(S) ==
  /\ worker' = [t \in DOMAIN worker |->
                  IF (\E s \in S : t \in TaskSet(s)) /\ worker[t].pc # "done"
                  THEN [worker[t] EXCEPT !.cancelled = TRUE, !.ticket = 0] ELSE worker[t]]
  /\ tasks' = DictPopAll(tasks, S)
  /\ queues' = DictPopAll(queues, S)
  /\ _recent_texts' = DictPopAll(_recent_texts, S)
  /\ _last_total_text' = DictPopAll(_last_total_text, S)
  /\ _last_sent_text' = DictPopAll(_last_sent_text, S)
  /\ session_locks' = DictPopAll(session_locks, S)

\* a stop_for_session call suspended in `await task` (lines 441-445): the tasks
\* it cancelled and the queue it popped; `by` is the caller, `since` the number
\* of the next chunk at the call
Stopper(sid, by) ==
  [sid |-> sid, tasks |-> TaskSet(sid), queue |-> ListOf(queues, sid),
   by |-> by, since |-> nextId]

\* stop_for_session, lines 429-451, called by the stop-recording endpoint: with no
\* task to await the call returns at once
stop_for_session(sid) ==
  /\ nstops < MaxStops
  /\ nstops' = nstops + 1
  /\ StopPops({sid})
  /\ stops' = IF sid \in DOMAIN tasks THEN stops \cup {Stopper(sid, "api")} ELSE stops
  /\ fate' = [c \in ChunkIds |->
                IF sid \notin DOMAIN tasks /\ c \in IdsOf(ListOf(queues, sid))
                THEN "stopped" ELSE fate[c]]
  /\ UNCHANGED << enabled, concurrency, store, nextId, attempts, delays,
                  requeued, errors, home, dispatched, callbacks, shut, completed,
                  appended >>

\* (a worker cancelled in its backoff still puts its chunk back)
WorkerCancelled_Requeues(t) ==
  /\ t \in DOMAIN worker
  /\ worker[t].cancelled
  /\ worker[t].pc # "done"
  /\ worker' = [worker EXCEPT ![t].pc = "done", ![t].chunk = NoChunk, ![t].result = None]
  /\ LET sid == worker[t].sid
         chunk == worker[t].chunk
         back == worker[t].pc = "sleep" /\ sid \in DOMAIN queues
     IN  /\ queues' = IF back THEN [queues EXCEPT ![sid] = RequeuePut(@, chunk)]
                      ELSE queues
         /\ fate' = IF back THEN [fate EXCEPT ![chunk.id] = "queued"]
                    ELSE IF worker[t].pc \in {"lock", "transcribe", "result", "sleep"}
                    THEN [fate EXCEPT ![chunk.id] = "lost_in_flight"]
                    ELSE fate
  /\ UNCHANGED << enabled, concurrency, tasks, session_locks, _recent_texts,
                  _last_total_text, _last_sent_text, stops, store, nextId,
                  nstops, attempts, delays, requeued, errors, home, dispatched,
                  callbacks, shut, completed, appended >>

\* a cancelled worker is resumed with CancelledError and ends (_worker_loop,
\* lines 223-232); the chunk it held is lost
WorkerCancelled(t) ==
  /\ t \in DOMAIN worker
  /\ worker[t].cancelled
  /\ worker[t].pc # "done"
  /\ worker' = [worker EXCEPT ![t].pc = "done", ![t].chunk = NoChunk, ![t].result = None]
  /\ fate' = IF worker[t].pc \in {"lock", "transcribe", "result", "sleep"}
             THEN [fate EXCEPT ![worker[t].chunk.id] =
                     IF worker[t].pc = "sleep" THEN "lost_in_backoff" ELSE "lost_in_flight"]
             ELSE fate
  /\ UNCHANGED << enabled, concurrency, mgr, stops, store, nextId, nstops,
                  attempts, delays, requeued, errors, home, dispatched, callbacks,
                  shut, completed, appended >>

\* (a stop that returns without awaiting the tasks it cancelled)
StopReturn_NoWait(st) ==
  /\ st \in stops
  /\ st.by = "api"
  /\ stops' = stops \ {st}
  /\ fate' = [c \in ChunkIds |-> IF c \in IdsOf(st.queue) THEN "stopped" ELSE fate[c]]
  /\ UNCHANGED << enabled, concurrency, mgr, worker, store, nextId, nstops,
                  attempts, delays, requeued, errors, home, dispatched, callbacks,
                  shut, completed, appended >>

\* stop_for_session, lines 441-451: every awaited task has ended; the popped
\* queue is drained and the call returns to the endpoint
StopReturn(st) ==
  /\ st \in stops
  /\ st.by = "api"
  /\ \A t \in st.tasks : worker[t].pc = "done"
  /\ stops' = stops \ {st}
  /\ fate' = [c \in ChunkIds |-> IF c \in IdsOf(st.queue) THEN "stopped" ELSE fate[c]]
  /\ UNCHANGED << enabled, concurrency, mgr, worker, store, nextId, nstops,
                  attempts, delays, requeued, errors, home, dispatched, callbacks,
                  shut, completed, appended >>

\* --------------------------------------------------------------- shutdown
RECURSIVE KeysInOrder(_)
\* list(self.tasks.keys()) restricted to S: a dict keeps the order of insertion,
\* which is the order of the conversations' first task ids
KeysInOrder(S) ==
  IF S = {} THEN << >>
  ELSE LET first == CHOOSE s \in S : \A r \in S : tasks[s][1] <= tasks[r][1]
       IN  <<first>> \o KeysInOrder(S \ {first})

\* the position in todo of the first conversation that has tasks to await (0: none)
FirstWithTasks(todo) ==
  IF \E i \in 1..Len(todo) : todo[i] \in DOMAIN tasks
  THEN CHOOSE i \in 1..Len(todo) :
         todo[i] \in DOMAIN tasks /\ \A j \in 1..(i - 1) : todo[j] \notin DOMAIN tasks
  ELSE 0

\* (the loop stops only the first conversation of the list)
ShutdownLoop_FirstOnly(todo, others, sh, drained) ==
  LET k == FirstWithTasks(todo)
      reached == {todo[i] : i \in 1..(IF k = 0 THEN Len(todo) ELSE k)}
  IN  /\ StopPops(reached)
      /\ fate' = [c \in ChunkIds |-> IF c \in drained THEN "stopped" ELSE fate[c]]
      /\ IF k = 0
         THEN /\ stops' = others
              /\ shut' = [sh EXCEPT !.state = "returned", !.todo = << >>]
         ELSE /\ stops' = others \cup {Stopper(todo[k], "shutdown")}
              /\ shut' = [sh EXCEPT !.state = "running", !.todo = << >>]

\* shutdown, lines 458-459: stop_for_session is called for the conversations of
\* todo in turn, up to the first call that has tasks to await; a call with no
\* task to await pops the conversation's entries, drains its queue and returns
ShutdownLoop(todo, others, sh, drained) ==
  LET k == FirstWithTasks(todo)
      reached == {todo[i] : i \in 1..(IF k = 0 THEN Len(todo) ELSE k)}
      skipped == reached \ (IF k = 0 THEN {} ELSE {todo[k]})
      gone == drained \cup UNION {IdsOf(ListOf(queues, s)) : s \in skipped}
  IN  /\ StopPops(reached)
      /\ fate' = [c \in ChunkIds |-> IF c \in gone THEN "stopped" ELSE fate[c]]
      /\ IF k = 0
         THEN /\ stops' = others
              /\ shut' = [sh EXCEPT !.state = "returned", !.todo = << >>]
         ELSE /\ stops' = others \cup {Stopper(todo[k], "shutdown")}
              /\ shut' = [sh EXCEPT !.state = "running",
                                    !.todo = SubSeq(todo, k + 1, Len(todo))]

\* shutdown, lines 453-459, called by lifespan (main.py, line 66): the known
\* conversations are listed and the first stop_for_session runs up to its await
shutdown ==
  /\ shut.state = "idle"
  /\ LET ids == KeysInOrder(DOMAIN tasks)
     IN  ShutdownLoop(ids, stops,
                      [state |-> "running", todo |-> ids, known |-> DOMAIN tasks,
                       workers |-> UNION {TaskSet(s) : s \in DOMAIN tasks},
                       since |-> nextId], {})
  /\ UNCHANGED << enabled, concurrency, store, nextId, nstops, attempts,
                  delays, requeued, errors, home, dispatched, callbacks, completed,
                  appended >>

\* stop_for_session, lines 441-451, called by shutdown: every awaited task has
\* ended, the popped queue is drained, and shutdown goes on with its list
ShutdownResume(st) ==
  /\ st \in stops
  /\ st.by = "shutdown"
  /\ \A t \in st.tasks : worker[t].pc = "done"
  /\ ShutdownLoop(shut.todo, stops \ {st}, shut, IdsOf(st.queue))
  /\ UNCHANGED << enabled, concurrency, store, nextId, nstops, attempts,
                  delays, requeued, errors, home, dispatched, callbacks, completed,
                  appended >>

\* ---------------------------------------------------------- specifications
Next ==
  \/ EnqueueCall
  \/ \E t \in DOMAIN worker : WorkerGet(t)
  \/ \E t \in DOMAIN worker : WorkerLock(t)
  \/ \E t \in DOMAIN worker, resp \in Responses : ProviderCompletes(t, resp)
  \/ \E t \in DOMAIN worker : ProviderReturn(t)
  \/ \E t \in DOMAIN worker : BroadcastDone(t)
  \/ \E t \in DOMAIN worker : BroadcastRaises(t)
  \/ \E sid \in Sessions : CallbackStart(sid)
  \/ \E sid \in Sessions, ok \in BOOLEAN : CallbackEnd(sid, ok)
  \/ \E sid \in OneSession : stop_for_session(sid)
  \/ \E t \in DOMAIN worker : WorkerCancelled(t)
  \/ \E st \in stops : StopReturn(st)

\* the program as written: WhisperClient never raises into the worker
Spec == Init /\ [][Next]_vars

\* the worker against a client call that raises (the case lines 259-281 handle)
NextRaising ==
  \/ EnqueueCall
  \/ \E t \in DOMAIN worker : WorkerGet(t)
  \/ \E t \in DOMAIN worker, resp \in Responses : ProviderCompletes(t, resp)
  \/ \E t \in DOMAIN worker : ProviderReturn(t)
  \/ \E t \in DOMAIN worker : BroadcastDone(t)
  \/ \E sid \in OneSession : stop_for_session(sid)
  \/ \E t \in DOMAIN worker : WorkerCancelled(t)
  \/ \E st \in stops : StopReturn(st)
  \/ \E t \in DOMAIN worker : TranscribeRaises(t)
  \/ \E t \in DOMAIN worker : _requeue_chunk(t)

\* main.py builds the manager with the default concurrency
InitDefault == Init /\ concurrency = 1

SpecRaising == InitDefault /\ [][NextRaising]_vars

\* the provider hears the same words in every chunk
OneResponse == {[kind |-> "text", text |-> <<"ko", "n">>]}

\* two conversations record, the endpoint stops them and lifespan shuts down
NextShutdown ==
  \/ EnqueueFor(Sessions)
  \/ \E t \in DOMAIN worker : WorkerGet(t)
  \/ \E t \in DOMAIN worker, resp \in OneResponse : ProviderCompletes(t, resp)
  \/ \E t \in DOMAIN worker : ProviderReturn(t)
  \/ \E t \in DOMAIN worker : BroadcastDone(t)
  \/ \E sid \in Sessions : stop_for_session(sid)
  \/ \E t \in DOMAIN worker : WorkerCancelled(t)
  \/ \E st \in stops : StopReturn(st)
  \/ shutdown
  \/ \E st \in stops : ShutdownResume(st)

\* the default manager with the transcription client enabled
InitEnabled == InitDefault /\ enabled = TRUE

SpecShutdown == InitEnabled /\ [][NextShutdown]_vars

\* two conversations record audio of 4000 bytes or more, with provider calls
\* that return or raise, and the endpoint stops them
EnqueueAudio(S) ==
  /\ nextId <= MaxChunks
  /\ \E sid \in S, speaker \in Speakers : enqueue_audio_chunk(sid, FALSE, speaker)

NextTwo ==
  \/ EnqueueAudio(Sessions)
  \/ \E t \in DOMAIN worker : WorkerGet(t)
  \/ \E t \in DOMAIN worker, resp \in OneResponse : ProviderCompletes(t, resp)
  \/ \E t \in DOMAIN worker : ProviderReturn(t)
  \/ \E t \in DOMAIN worker : BroadcastDone(t)
  \/ \E t \in DOMAIN worker : TranscribeRaises(t)
  \/ \E t \in DOMAIN worker : _requeue_chunk(t)
  \/ \E sid \in Sessions : stop_for_session(sid)
  \/ \E t \in DOMAIN worker : WorkerCancelled(t)
  \/ \E st \in stops : StopReturn(st)

SpecTwo == InitEnabled /\ [][NextTwo]_vars

\* "おはよう", "ございます", "こんにちは", "お元気ですか", "元気"
OHAYOU == <<"o", "ha", "yo", "u">>
GOZAIMASU == <<"go", "za", "i", "ma", "su">>
KONNICHIHA == <<"ko", "n", "ni", "chi", "ha">>
OGENKIDESUKA == <<"o", "ge", "n", "ki", "de", "su", "ka">>
GENKI == <<"ge", "n", "ki">>
\* "AB" and "ab": two texts that differ in case only
UPPER_AB == <<"A", "B">>
LOWER_AB == <<"a", "b">>

\* what the provider returns for the audio of the scenarios: cumulative
\* transcripts, with and without a space at the join
ScenarioResults ==
  { OHAYOU, OHAYOU \o GOZAIMASU, OHAYOU \o <<" ">> \o GENKI,
    KONNICHIHA, KONNICHIHA \o OGENKIDESUKA, UPPER_AB, UPPER_AB \o LOWER_AB }
ScenarioResponses ==
  {[kind |-> "none", text |-> << >>]}
    \cup {[kind |-> "text", text |-> r] : r \in ScenarioResults}

\* one conversation records without being stopped
NextReconcile ==
  \/ EnqueueCall
  \/ \E t \in DOMAIN worker : WorkerGet(t)
  \/ \E t \in DOMAIN worker, resp \in ScenarioResponses : ProviderCompletes(t, resp)
  \/ \E t \in DOMAIN worker : ProviderReturn(t)
  \/ \E t \in DOMAIN worker : BroadcastDone(t)

SpecReconcile == InitEnabled /\ [][NextReconcile]_vars

\* one conversation records into a store whose file writes can fail
NextSaveFails ==
  \/ EnqueueCall
  \/ \E t \in DOMAIN worker : WorkerGet(t)
  \/ \E t \in DOMAIN worker, resp \in ScenarioResponses : ProviderCompletes(t, resp)
  \/ \E t \in DOMAIN worker : ProviderReturn(t)
  \/ \E t \in DOMAIN worker : SaveSessionRaises(t)
  \/ \E t \in DOMAIN worker : BroadcastDone(t)

SpecSaveFails == InitEnabled /\ [][NextSaveFails]_vars

\* the audio_chunk message names its speaker (websocket_handler.py, lines
\* 208-209): two speakers take turns in one conversation
TwoSpeakers == {"spk1", "spk2"}
EnqueueBy(S, Sp) ==
  /\ nextId <= MaxChunks
  /\ \E sid \in S, speaker \in Sp : enqueue_audio_chunk(sid, FALSE, speaker)

\* "AB" and "AB AB": the provider hears the words once or twice
SpokenResults == {UPPER_AB, UPPER_AB \o <<" ">> \o UPPER_AB}
SpokenResponses == {[kind |-> "text", text |-> r] : r \in SpokenResults}

\* one conversation of two speakers records, is stopped and records again, into
\* a store whose file writes can fail
NextSpeakers ==
  \/ EnqueueBy(OneSession, TwoSpeakers)
  \/ \E t \in DOMAIN worker : WorkerGet(t)
  \/ \E t \in DOMAIN worker, resp \in SpokenResponses : ProviderCompletes(t, resp)
  \/ \E t \in DOMAIN worker : ProviderReturn(t)
  \/ \E t \in DOMAIN worker : SaveSessionRaises(t)
  \/ \E t \in DOMAIN worker : BroadcastDone(t)
  \/ \E sid \in OneSession : stop_for_session(sid)
  \/ \E t \in DOMAIN worker : WorkerCancelled(t)
  \/ \E st \in stops : StopReturn(st)

SpecSpeakers == InitEnabled /\ [][NextSpeakers]_vars

\* the words of a long conversation: W[i] is the i-th utterance accepted
\* before the run begins, W[12] and W[13] are words not spoken before
W == <<"w1", "w2", "w3", "w4", "w5", "w6", "w7", "w8", "w9", "w10", "w11", "w12", "w13">>
Word(i) == <<W[i]>>

\* the manager of main.py after n chunks of one speaker were accepted in
\* conversation s1, each with a provider result that did not extend the one
\* before: the worker waits for the next chunk, the ring holds the keys of the
\* last 10 of them (lines 358-360), cumulative and last-accepted text are the
\* n-th (lines 352, 361); the logs of chunks start with the run
InitRing ==
  /\ enabled = TRUE /\ concurrency = 1
  /\ \E n \in RingFills :
       /\ transcript = [s \in Sessions |->
            IF s = "s1"
            THEN [i \in 1..n |-> Utterance(Word(i), "spk1", "Interviewer")] ELSE << >>]
       /\ recent_transcript = [s \in Sessions |->
            IF s = "s1"
            THEN [i \in 1..n |-> Utterance(Word(i), "spk1", "Interviewer")] ELSE << >>]
       /\ pending_ai_article_count = [s \in Sessions |-> IF s = "s1" THEN n ELSE 0]
       /\ pending_ai_question_count = [s \in Sessions |-> IF s = "s1" THEN n ELSE 0]
       /\ IF n = 0
          THEN /\ queues = EmptyDict /\ tasks = EmptyDict /\ session_locks = EmptyDict
               /\ _recent_texts = EmptyDict /\ _last_total_text = EmptyDict
               /\ _last_sent_text = EmptyDict /\ worker = << >>
          ELSE /\ queues = DictSet(EmptyDict, "s1", << >>)
               /\ tasks = DictSet(EmptyDict, "s1", <<1>>)
               /\ session_locks = DictSet(EmptyDict, "s1", 0)
               /\ _recent_texts =
                    DictSet(EmptyDict, "s1",
                            LastN([i \in 1..n |-> _normalize_text(Word(i))], RECENT_LIMIT))
               /\ _last_total_text = DictSet(EmptyDict, "s1", Word(n))
               /\ _last_sent_text = DictSet(EmptyDict, "s1", Word(n))
               /\ worker = <<NewWorker("s1")>>
  /\ uploads = << >>
  /\ stops = {}
  /\ nextId = 1
  /\ nstops = 0
  /\ attempts = [c \in ChunkIds |-> 0]
  /\ fate = [c \in ChunkIds |-> "new"]
  /\ delays = [c \in ChunkIds |-> << >>]
  /\ requeued = [c \in ChunkIds |-> 0]
  /\ errors = [c \in ChunkIds |-> 0]
  /\ home = [c \in ChunkIds |-> "none"]
  /\ dispatched = [s \in Sessions |-> 0]
  /\ callbacks = [s \in Sessions |-> << >>]
  /\ shut = NotShut
  /\ completed = [s \in Sessions |-> << >>]
  /\ appended = [s \in Sessions |-> << >>]

\* the provider hears the first or the second word again, or a new word
RingResults == {Word(1), Word(2), Word(12), Word(13)}
RingResponses == {[kind |-> "text", text |-> r] : r \in RingResults}

\* a long conversation of two speakers goes on, into a store whose file writes
\* can fail
NextRing ==
  \/ EnqueueBy(OneSession, TwoSpeakers)
  \/ \E t \in DOMAIN worker : WorkerGet(t)
  \/ \E t \in DOMAIN worker, resp \in RingResponses : ProviderCompletes(t, resp)
  \/ \E t \in DOMAIN worker : ProviderReturn(t)
  \/ \E t \in DOMAIN worker : SaveSessionRaises(t)
  \/ \E t \in DOMAIN worker : BroadcastDone(t)

SpecRing == InitRing /\ [][NextRing]_vars

\* the long conversation goes on and the endpoint stops it
NextRingStop ==
  \/ EnqueueBy(OneSession, TwoSpeakers)
  \/ \E t \in DOMAIN worker : WorkerGet(t)
  \/ \E t \in DOMAIN worker, resp \in RingResponses : ProviderCompletes(t, resp)
  \/ \E t \in DOMAIN worker : ProviderReturn(t)
  \/ \E t \in DOMAIN worker : SaveSessionRaises(t)
  \/ \E t \in DOMAIN worker : BroadcastDone(t)
  \/ \E sid \in OneSession : stop_for_session(sid)
  \/ \E t \in DOMAIN worker : WorkerCancelled(t)
  \/ \E st \in stops : StopReturn(st)

SpecRingStop == InitRing /\ [][NextRingStop]_vars

\* "はい", "はい、そうですね", "テストテスト", "テストテストテストテスト", "ーーーーーー"
HAI == <<"ha", "i">>
HAI_SOUDESUNE == <<"ha", "i", "ten", "so", "u", "de", "su", "ne">>
TESTTEST == <<"te", "su", "to", "te", "su", "to">>
TESTTEST_TWICE == TESTTEST \o TESTTEST
SAME_SIX == <<"-", "-", "-", "-", "-", "-">>

\* what the provider returns for the audio of the filter's examples
FilterResults == {HAI, HAI_SOUDESUNE, TESTTEST, TESTTEST_TWICE, SAME_SIX}
FilterResponses ==
  {[kind |-> "none", text |-> << >>]}
    \cup {[kind |-> "text", text |-> r] : r \in FilterResults}

\* one conversation records the filter's examples without being stopped
NextFilter ==
  \/ EnqueueCall
  \/ \E t \in DOMAIN worker : WorkerGet(t)
  \/ \E t \in DOMAIN worker, resp \in FilterResponses : ProviderCompletes(t, resp)
  \/ \E t \in DOMAIN worker : ProviderReturn(t)
  \/ \E t \in DOMAIN worker : BroadcastDone(t)

SpecFilter == InitEnabled /\ [][NextFilter]_vars

\* texts at the edges of the filter's rules: the prompt and the prompt with one
\* more character, a filler and a filler with one more character, 5, 6 and 12
\* identical characters, a text of 10 and one of 12 characters that repeat their
\* first half, 11 characters that nearly do, and a phrase the provider invents,
\* alone and inside a sentence
SAME_FIVE == <<"-", "-", "-", "-", "-">>
FIVE == <<"a", "b", "c", "d", "e">>
FilterCases ==
  { BASE_PROMPT, BASE_PROMPT \o <<"ne">>, HAI, HAI \o <<"ne">>,
    SAME_FIVE, SAME_SIX, SAME_SIX \o SAME_SIX,
    FIVE \o FIVE, TESTTEST_TWICE, FIVE \o <<"x">> \o FIVE,
    HALLUCINATION_SUBSCRIBE, <<"a", "b">> \o HALLUCINATION_THANKS \o <<"c">>,
    OHAYOU }
FilterCaseResponses == {[kind |-> "text", text |-> r] : r \in FilterCases}

\* one conversation records; the provider returns the texts of FilterCases
NextFilterCases ==
  \/ EnqueueCall
  \/ \E t \in DOMAIN worker : WorkerGet(t)
  \/ \E t \in DOMAIN worker, resp \in FilterCaseResponses : ProviderCompletes(t, resp)
  \/ \E t \in DOMAIN worker : ProviderReturn(t)
  \/ \E t \in DOMAIN worker : BroadcastDone(t)

SpecFilterCases == InitEnabled /\ [][NextFilterCases]_vars

\* what the provider returns for audio without speech: nothing, an empty text,
\* blanks; and for audio with speech
SilentResponses ==
  { [kind |-> "none", text |-> << >>], [kind |-> "text", text |-> << >>],
    [kind |-> "text", text |-> <<" ">>], [kind |-> "text", text |-> <<" ", "\n">>],
    [kind |-> "text", text |-> OHAYOU], [kind |-> "text", text |-> OHAYOU \o GOZAIMASU] }

\* one conversation records speech and silence
NextSilence ==
  \/ EnqueueCall
  \/ \E t \in DOMAIN worker : WorkerGet(t)
  \/ \E t \in DOMAIN worker, resp \in SilentResponses : ProviderCompletes(t, resp)
  \/ \E t \in DOMAIN worker : ProviderReturn(t)
  \/ \E t \in DOMAIN worker : BroadcastDone(t)

SpecSilence == InitEnabled /\ [][NextSilence]_vars

\* main.py, process_uploaded_file, lines 151-175: the transcribed text of an
\* uploaded file is handed to the store for the speaker "Speaker"
process_uploaded_file(sid, text) ==
  /\ Len(uploads) < MaxUploads
  /\ IF text # << >> /\ ~StoreRefuses(transcript[sid], text, "Speaker")
     THEN /\ StoreAppend(sid, Utterance(text, "Speaker", "AudioFile"))
          /\ uploads' = Append(uploads, [sid |-> sid, text |-> text, stored |-> TRUE])
     ELSE /\ StoreKeeps
          /\ uploads' = Append(uploads, [sid |-> sid, text |-> text, stored |-> FALSE])
  /\ UNCHANGED << enabled, concurrency, mgr, worker, stops, nextId, nstops, ghost,
                  dispatched, callbacks, shut, completed, appended >>

\* an utterance of another speaker
OtherUtterance == Utterance(<<"x">>, "spk9", "Guest")
SPACED_AB == <<"a", " ", "b">>
LOWER_BA == <<"b", "a">>

\* a session loaded from the store: one utterance followed by `gap` utterances
\* of another speaker
StoredTranscripts ==
  {<< >>} \cup
  { <<Utterance(tx, sp, IF sp = "Speaker" THEN "AudioFile" ELSE "Interviewer")>> \o [i \in 1..gap |-> OtherUtterance] :
      sp \in {"spk1", "Speaker"}, tx \in {UPPER_AB, SPACED_AB}, gap \in StoreGaps }

\* the manager of main.py over sessions that already hold utterances
InitStore ==
  /\ InitManager /\ enabled = TRUE /\ concurrency = 1
  /\ \E stored \in StoredTranscripts :
       /\ transcript = [s \in Sessions |-> IF s = "s1" THEN stored ELSE << >>]
       /\ recent_transcript = [s \in Sessions |-> IF s = "s1" THEN stored ELSE << >>]
  /\ pending_ai_article_count = [s \in Sessions |-> 0]
  /\ pending_ai_question_count = [s \in Sessions |-> 0]
  /\ uploads = << >>

StoreResults == {UPPER_AB, LOWER_AB, LOWER_BA}
StoreResponses == {[kind |-> "text", text |-> r] : r \in StoreResults}
UploadTexts == {LOWER_AB, <<" ">> \o UPPER_AB \o <<" ">>, LOWER_BA}

\* one conversation records while files are imported into it
NextStore ==
  \/ EnqueueCall
  \/ \E t \in DOMAIN worker : WorkerGet(t)
  \/ \E t \in DOMAIN worker, resp \in StoreResponses : ProviderCompletes(t, resp)
  \/ \E t \in DOMAIN worker : ProviderReturn(t)
  \/ \E t \in DOMAIN worker : BroadcastDone(t)
  \/ \E sid \in OneSession, text \in UploadTexts : process_uploaded_file(sid, text)

SpecStore == InitStore /\ [][NextStore]_vars

\* the event loop runs every task that is ready, and provider and broadcast
\* calls return
Progress ==
  \E t \in DOMAIN worker :
    \/ WorkerGet(t)
    \/ WorkerLock(t)
    \/ \E resp \in Responses : ProviderCompletes(t, resp)
    \/ ProviderReturn(t)
    \/ BroadcastDone(t)
    \/ BroadcastRaises(t)
    \/ WorkerCancelled(t)

FairSpec ==
  /\ Spec
  /\ WF_vars(Progress)
  /\ WF_vars(\E st \in stops : StopReturn(st))
  /\ WF_vars(\E sid \in Sessions : CallbackStart(sid))

\* one conversation records; the provider call returns or raises, and the
\* store's file write may fail
NextStoreError ==
  \/ EnqueueAudio(OneSession)
  \/ \E t \in DOMAIN worker : WorkerGet(t)
  \/ \E t \in DOMAIN worker, resp \in SpokenResponses : ProviderCompletes(t, resp)
  \/ \E t \in DOMAIN worker : TranscribeRaises(t)
  \/ \E t \in DOMAIN worker : _requeue_chunk(t)
  \/ \E t \in DOMAIN worker : ProviderReturn(t)
  \/ \E t \in DOMAIN worker : SaveSessionRaises(t)
  \/ \E t \in DOMAIN worker : BroadcastDone(t)

SpecStoreError == InitEnabled /\ [][NextStoreError]_vars

\* one conversation records with one or two workers; the provider call returns
\* or raises, and a failed chunk is retried
NextLockedRetry ==
  \/ EnqueueAudio(OneSession)
  \/ \E t \in DOMAIN worker : WorkerGet(t)
  \/ \E t \in DOMAIN worker : WorkerLock(t)
  \/ \E t \in DOMAIN worker, resp \in OneResponse : ProviderCompletes(t, resp)
  \/ \E t \in DOMAIN worker : TranscribeRaises(t)
  \/ \E t \in DOMAIN worker : _requeue_chunk(t)
  \/ \E t \in DOMAIN worker : ProviderReturn(t)
  \/ \E t \in DOMAIN worker : BroadcastDone(t)

\* TranscriptionManager(concurrency=...) with the client enabled
InitAnyConcurrency == Init /\ enabled = TRUE

SpecLockedRetry == InitAnyConcurrency /\ [][NextLockedRetry]_vars

\* a greeting, the greeting with a second word, a filler, a hallucination
\* phrase and a run of one character
NamedResults ==
  { OHAYOU, OHAYOU \o <<" ">> \o GENKI, HAI, HALLUCINATION_SUBSCRIBE, SAME_SIX }
NamedResponses == {[kind |-> "text", text |-> r] : r \in NamedResults}

\* two speakers record under the names their messages give them, into a store
\* whose file writes can fail
NextNamed ==
  \/ EnqueueNamed(OneSession, TwoSpeakers)
  \/ \E t \in DOMAIN worker : WorkerGet(t)
  \/ \E t \in DOMAIN worker, resp \in NamedResponses : ProviderCompletes(t, resp)
  \/ \E t \in DOMAIN worker : ProviderReturn(t)
  \/ \E t \in DOMAIN worker : SaveSessionRaises(t)
  \/ \E t \in DOMAIN worker : BroadcastDone(t)

SpecNamed == InitEnabled /\ [][NextNamed]_vars

\* one conversation records audio of 4000 bytes or more; the provider returns
\* the same words or raises, and the endpoint stops the conversation
NextRetry ==
  \/ EnqueueAudio(OneSession)
  \/ \E t \in DOMAIN worker : WorkerGet(t)
  \/ \E t \in DOMAIN worker, resp \in OneResponse : ProviderCompletes(t, resp)
  \/ \E t \in DOMAIN worker : TranscribeRaises(t)
  \/ \E t \in DOMAIN worker : _requeue_chunk(t)
  \/ \E t \in DOMAIN worker : ProviderReturn(t)
  \/ \E t \in DOMAIN worker : BroadcastDone(t)
  \/ \E sid \in OneSession : stop_for_session(sid)
  \/ \E t \in DOMAIN worker : WorkerCancelled(t)
  \/ \E st \in stops : StopReturn(st)

SpecRetry == InitEnabled /\ [][NextRetry]_vars

\* the event loop runs every task that is ready; client calls return or raise,
\* store and broadcast calls return, sleeps end
ProgressRetry ==
  \E t \in DOMAIN worker :
    \/ WorkerGet(t)
    \/ \E resp \in OneResponse : ProviderCompletes(t, resp)
    \/ TranscribeRaises(t)
    \/ _requeue_chunk(t)
    \/ ProviderReturn(t)
    \/ BroadcastDone(t)
    \/ WorkerCancelled(t)

FairRetry ==
  /\ SpecRetry
  /\ WF_vars(ProgressRetry)
  /\ WF_vars(\E st \in stops : StopReturn(st))

\* ------------------------------------------------------------- properties
InQueue(c) ==
  \E s \in DOMAIN queues : \E i \in 1..Len(queues[s]) : queues[s][i].id = c

\* the step is an accepted enqueue call for session s
EnqueuedFor(s) ==
  enabled /\ nextId \in ChunkIds /\ nextId' = nextId + 1 /\ home'[nextId] = s

\* the step is worker t leaving its backoff by _requeue_chunk
RequeueStep(t) == worker[t].pc = "sleep" /\ worker'[t].pc = "get"

\* the step ends worker t, stopped while it slept in a backoff
StoppedInBackoff(t) ==
  worker[t].pc = "sleep" /\ worker[t].cancelled /\ worker'[t].pc # "sleep"

\* C1: a conversation's queue never holds more than max_queue_size chunks, and
\* an enqueue on a full queue removes the oldest chunk and puts the new chunk
\* at the tail.
C1_DropOldestBounded ==
  /\ [](\A s \in DOMAIN queues : Len(queues[s]) <= max_queue_size)
  /\ [][\A s \in DOMAIN queues :
          (EnqueuedFor(s) /\ Len(queues[s]) = max_queue_size) =>
            /\ Len(queues'[s]) = max_queue_size
            /\ \A i \in 1..(max_queue_size - 1) : queues'[s][i] = queues[s][i + 1]
            /\ queues'[s][max_queue_size].id = nextId
            /\ queues'[s][max_queue_size].retries = 0
            /\ fate'[Head(queues[s]).id] = "evicted"]_vars

C1_Witness == \E c \in ChunkIds : fate[c] = "evicted"

\* C2 as stated: once max_queue_size + 1 chunks have been enqueued for one
\* conversation, the first of them has not been sent to the provider.
C2_FirstNeverSent ==
  (enabled /\ nextId > max_queue_size + 1
     /\ \A c \in 1..(max_queue_size + 1) : home[c] = home[1])
    => attempts[1] = 0

\* C2 amended: a chunk that an enqueue on a full queue evicted has not been and
\* is never sent to the provider; a queued chunk (the one that took its place
\* included) is eventually taken and submitted, unless it is undersized, evicted
\* by a later overflow or discarded by a stop of the conversation.
C2_EvictedNeverSentNewProcessed ==
  /\ [](\A c \in ChunkIds : fate[c] = "evicted" => attempts[c] = 0 /\ ~InQueue(c))
  /\ [][\A c \in ChunkIds :
          fate[c] = "evicted" => fate'[c] = "evicted" /\ attempts'[c] = 0]_vars
  /\ \A c \in ChunkIds :
       (fate[c] = "queued") ~>
         (attempts[c] > 0
            \/ fate[c] \in {"skipped", "evicted", "stopped", "lost_in_flight"})

C2_Witness == fate[1] = "evicted" /\ attempts[max_queue_size + 1] > 0

\* C3: in every reachable state an enqueue call can run to its end: it never
\* has to wait, whatever the worker is doing and however full the queue is.
C3_EnqueueNeverBlocks ==
  \A sid \in Sessions, small \in BOOLEAN, speaker \in Speakers :
    ENABLED enqueue_audio_chunk(sid, small, speaker)

C3_Witness ==
  \E t \in DOMAIN worker :
    /\ worker[t].pc = "sleep"
    /\ ~worker[t].cancelled
    /\ worker[t].sid \in DOMAIN queues
    /\ Len(queues[worker[t].sid]) = max_queue_size

\* C4: with the transcription client disabled no enqueue call changes the
\* supervisor: no queue, task, lock or reconciliation state exists and no chunk
\* is queued.
C4_DisabledNoEffect ==
  ~enabled =>
    /\ DOMAIN queues = {} /\ DOMAIN tasks = {} /\ DOMAIN session_locks = {}
    /\ DOMAIN _recent_texts = {} /\ DOMAIN _last_total_text = {}
    /\ DOMAIN _last_sent_text = {}
    /\ DOMAIN worker = {}
    /\ \A c \in ChunkIds : fate[c] = "new" /\ attempts[c] = 0

C4_Witness == ~enabled /\ nextId > 1

\* C5: the queue map and the task map hold the same conversations, each with
\* exactly `concurrency` distinct running worker tasks, which are all its running
\* workers; only an enqueue for a conversation without a queue creates a queue
\* and starts workers, `concurrency` of them.
C5_WorkersPerQueue ==
  /\ [](/\ DOMAIN queues = DOMAIN tasks
        /\ \A s \in DOMAIN tasks :
             /\ Len(tasks[s]) = concurrency
             /\ Cardinality(TaskSet(s)) = concurrency
             /\ TaskSet(s) = {t \in DOMAIN worker : Running(t) /\ worker[t].sid = s})
  /\ [][LET first == \E s \in Sessions : EnqueuedFor(s) /\ s \notin DOMAIN queues
        IN  /\ Len(worker') = Len(worker) + (IF first THEN concurrency ELSE 0)
            /\ Cardinality(DOMAIN queues' \ DOMAIN queues) = (IF first THEN 1 ELSE 0)]_vars

C5_Witness ==
  /\ concurrency = 2
  /\ nstops = 0
  /\ nextId >= 3
  /\ \E s \in DOMAIN queues : Len(tasks[s]) = 2 /\ Len(worker) = 2

\* C6: a provider call that fails on a chunk with fewer than max_retries retries
\* puts the worker into the retry: the chunk's retry count goes up by one and
\* the worker holds the same chunk for its backoff and requeue.
C6_RetryOnProviderError ==
  [][\A t \in DOMAIN worker :
       LET c == worker[t].chunk
       IN  (worker[t].pc = "transcribe" /\ c.id \in ChunkIds
              /\ errors'[c.id] = errors[c.id] + 1 /\ c.retries < max_retries)
             => /\ worker'[t].pc = "sleep"
                /\ worker'[t].chunk.id = c.id
                /\ worker'[t].chunk.retries = c.retries + 1]_vars

\* C7: no chunk is submitted to the provider more than max_retries + 1 times; a
\* chunk is abandoned at the failure of its (max_retries + 1)th submission, the
\* step changes neither queue, transcript nor reconciliation state and
\* dispatches no callback, and an abandoned chunk is never requeued or submitted
\* again.
C7_AbandonAfterMaxRetries ==
  /\ [](\A c \in ChunkIds : attempts[c] <= max_retries + 1)
  /\ [][\A c \in ChunkIds :
          (fate'[c] = "abandoned" /\ fate[c] # "abandoned") =>
            /\ attempts[c] = max_retries + 1
            /\ queues' = queues
            /\ transcript' = transcript
            /\ _last_total_text' = _last_total_text
            /\ _last_sent_text' = _last_sent_text
            /\ _recent_texts' = _recent_texts
            /\ dispatched' = dispatched
            /\ requeued' = requeued]_vars
  /\ [][\A c \in ChunkIds :
          fate[c] = "abandoned" =>
            /\ fate'[c] = "abandoned"
            /\ attempts'[c] = attempts[c]
            /\ requeued'[c] = requeued[c]]_vars

C7_Witness == \E c \in ChunkIds : fate[c] = "abandoned" /\ ~InQueue(c)

\* C8: the k-th failure of a chunk's provider call (k <= max_retries) starts a
\* backoff of base_delay * 2^(k-1).
C8_BackoffAfterFailure ==
  [][\A c \in ChunkIds :
       (errors'[c] = errors[c] + 1 /\ errors'[c] <= max_retries) =>
         delays'[c] = Append(delays[c], base_delay * Pow2(errors'[c] - 1))]_vars

ReturnedTasks ==
  {t \in DOMAIN worker : worker[t].cancelled /\ \A st \in stops : t \notin st.tasks}

\* the text the map d holds for session s after the step differs from before
Written(d, s) == s \in DOMAIN d' /\ TextOf(d', s) # TextOf(d, s)

\* the step appends an utterance, writes reconciliation state, submits a chunk
\* to the provider or requeues a chunk
TouchesPipeline ==
  \/ transcript' # transcript
  \/ appended' # appended
  \/ attempts' # attempts
  \/ requeued' # requeued
  \/ \E s \in Sessions :
       \/ Written(_last_total_text, s)
       \/ Written(_last_sent_text, s)
       \/ Written(_recent_texts, s)

\* C11: when a stop call has returned, every worker task it cancelled has
\* ended; such a worker takes no further step, and every step that appends an
\* utterance, writes cumulative text, last-accepted text or the dedup ring,
\* submits a chunk to the provider or requeues a chunk is the step of a worker
\* that no stop has cancelled.
C11_StopAwaitsWorkers ==
  /\ [](\A t \in ReturnedTasks : worker[t].pc = "done")
  /\ [][\A t \in ReturnedTasks : worker'[t] = worker[t]]_vars
  /\ [][TouchesPipeline =>
          \E t \in DOMAIN worker :
            /\ ~worker[t].cancelled
            /\ t \notin ReturnedTasks
            /\ worker'[t] # worker[t]]_vars

C11_Witness ==
  /\ concurrency = 2
  /\ stops = {}
  /\ Cardinality(ReturnedTasks) = 2
  /\ \E c \in ChunkIds, d \in ChunkIds :
       /\ fate[c] = "lost_in_flight"
       /\ fate[d] = "accepted"
       /\ dispatched[home[d]] = 0

\* no map of the supervisor has an entry for session s
Gone(s) ==
  /\ s \notin DOMAIN queues
  /\ s \notin DOMAIN tasks
  /\ s \notin DOMAIN _last_total_text
  /\ s \notin DOMAIN _last_sent_text
  /\ s \notin DOMAIN _recent_texts
  /\ s \notin DOMAIN session_locks

\* no chunk was enqueued for the conversation of stop call st since the call
NoEnqueueSince(st) == \A c \in ChunkIds : (st.since <= c /\ c < nextId) => home[c] # st.sid

\* C12: when a stop call returns with no enqueue for its conversation since the
\* call, the conversation has no entry in the queue, task, cumulative-text,
\* last-accepted-text, dedup-ring or lock map, and every chunk that was queued
\* is discarded: it was never sent to the provider and never is; a conversation
\* without workers never has an entry in any map.
C12_StopDiscardsAll ==
  /\ [][\A st \in stops :
          (st \notin stops' /\ NoEnqueueSince(st)) =>
            /\ Gone(st.sid)'
            /\ \A c \in IdsOf(st.queue) :
                 fate'[c] = "stopped" /\ attempts'[c] = 0 /\ ~InQueue(c)']_vars
  /\ [](\A s \in Sessions : s \notin DOMAIN tasks => Gone(s))
  /\ [][\A c \in ChunkIds :
          fate[c] = "stopped" =>
            fate'[c] = "stopped" /\ attempts'[c] = attempts[c] /\ ~InQueue(c)']_vars

C12_Witness ==
  /\ stops = {}
  /\ nstops = 1
  /\ DOMAIN tasks = {}
  /\ \E c \in ChunkIds : fate[c] = "stopped" /\ Len(transcript[home[c]]) >= 1

\* the step is the return of shutdown(), with no enqueue since its call
ShutdownReturns ==
  shut.state # "returned" /\ shut'.state = "returned" /\ nextId' = shut'.since

\* C13 as stated: when shutdown returns with no enqueue since its call, the task
\* map and the queue map are empty and every worker task has ended.
C13_ShutdownEndsAllWorkers ==
  [][ShutdownReturns =>
       /\ DOMAIN tasks' = {}
       /\ DOMAIN queues' = {}
       /\ \A t \in DOMAIN worker' : worker'[t].pc = "done"]_vars

\* C13 amended: when shutdown returns with no enqueue since its call, the task
\* map and the queue map are empty, no conversation known at the call has an
\* entry in any map, and every worker task has ended or is cancelled and still
\* awaited by a stop call of the endpoint that runs beside the shutdown.
C13_ShutdownStopsKnown ==
  [][ShutdownReturns =>
       /\ DOMAIN tasks' = {}
       /\ DOMAIN queues' = {}
       /\ \A s \in shut'.known : Gone(s)'
       /\ \A t \in DOMAIN worker' :
            worker'[t].pc # "done" =>
              /\ worker'[t].cancelled
              /\ \E st \in stops' : st.by = "api" /\ t \in st.tasks]_vars

C13_Witness ==
  /\ shut.state = "returned"
  /\ shut.since = nextId
  /\ Cardinality(shut.known) = 2
  /\ Cardinality(shut.workers) = 2
  /\ \A t \in shut.workers : worker[t].pc = "done"
  /\ \E c \in ChunkIds : fate[c] = "stopped"
  /\ \E c \in ChunkIds : fate[c] = "lost_in_flight"

\* the number of times chunk c stands in the list l
Occurrences(l, c) == Cardinality({i \in 1..Len(l) : l[i] = c})

\* the chunks of session s for which the callback was dispatched
Notified(s) == {c \in ChunkIds : home[c] = s /\ fate[c] = "notified"}

Invoked(s) == Cardinality({i \in 1..Len(callbacks[s]) : callbacks[s][i] # "created"})

\* C15: every utterance the pipeline appends is eventually followed by an
\* invocation of the callback: once the pipeline has appended n utterances to a
\* conversation, the callback is eventually invoked n times for it.
C15_AppendLeadsToCallback ==
  \A s \in Sessions, n \in 1..MaxChunks :
    (Len(appended[s]) >= n) ~> (Invoked(s) >= n)

\* a step of a callback task: a created task is started, or a running one ends
CallbackStep == \E s \in Sessions : callbacks'[s] # callbacks[s] /\ dispatched'[s] = dispatched[s]

\* C16: a callback that raises or never completes does not stop ingestion: a
\* worker that has broadcast can always go on without waiting for any callback,
\* a step of a callback task changes neither a worker nor a queue nor the worker
\* tasks, a callback task is created only by a dispatch and a raised one stays
\* raised (no retry), and every queued chunk is eventually taken from its queue
\* or discarded by a stop, whatever the callbacks do.
C16_CallbackNeverBlocksWorker ==
  /\ [](\A t \in DOMAIN worker :
         Running(t) /\ worker[t].pc = "broadcast" => ENABLED BroadcastDone(t))
  /\ [][CallbackStep => UNCHANGED << worker, mgr, transcript, dispatched, ghost >>]_vars
  /\ [](\A s \in Sessions : Len(callbacks[s]) = dispatched[s])
  /\ [][\A s \in Sessions : \A i \in 1..Len(callbacks[s]) :
          callbacks[s][i] = "raised" => callbacks'[s][i] = "raised"]_vars
  /\ \A c \in ChunkIds : (fate[c] = "queued") ~> (fate[c] # "queued")

C16_Witness ==
  /\ Len(callbacks["s1"]) = 2
  /\ callbacks["s1"][1] = "raised"
  /\ callbacks["s1"][2] = "running"
  /\ \E t \in DOMAIN worker : Running(t) /\ worker[t].pc = "transcribe"

\* a is b with some elements left out, the order kept
RECURSIVE IsSubseq(_, _)
IsSubseq(a, b) ==
  IF a = << >> THEN TRUE
  ELSE IF b = << >> THEN FALSE
  ELSE IF Head(a) = Head(b) THEN IsSubseq(Tail(a), Tail(b))
  ELSE IsSubseq(a, Tail(b))

\* the chunks of the successful provider calls of session s, in completion order
CompletedIds(s) == [i \in 1..Len(completed[s]) |-> completed[s][i].id]

\* C17: for every conversation the utterances are appended in the order in
\* which the provider calls of their chunks completed successfully: the
\* appended chunks are, in order, among the completed ones, and each append is
\* for the chunk whose provider call was the last to complete.
C17_AppendOrderIsCompletionOrder ==
  /\ [](\A s \in Sessions : IsSubseq(appended[s], CompletedIds(s)))
  /\ [][\A s \in Sessions :
          appended'[s] # appended[s] =>
            /\ completed[s] # << >>
            /\ appended'[s] = Append(appended[s], completed[s][Len(completed[s])].id)]_vars

C17_Witness ==
  /\ concurrency = 2
  /\ Len(appended["s1"]) = 2
  /\ Len(completed["s1"]) = 3
  /\ appended["s1"][2] = completed["s1"][3].id

\* worker t is resumed with the provider's result and leaves the reconciliation
Delivered(t) ==
  /\ Running(t) /\ worker[t].pc = "result"
  /\ worker'[t].pc \in {"get", "broadcast"} /\ ~worker'[t].cancelled

\* deliveries i and i+1 of session s carry the same raw result
SameTwice(s, i) ==
  /\ i + 1 <= Len(completed[s])
  /\ completed[s][i].text # None
  /\ completed[s][i].text = completed[s][i + 1].text

\* a result equal to the cumulative text is resolved as "same_total": nothing
\* is appended or dispatched; ring, last-accepted and cumulative text are kept
NoChangeOnSameTotal ==
  \A t \in DOMAIN worker :
    (/\ Delivered(t)
     /\ worker[t].result # None
     /\ Strip(worker[t].result) = TextOf(_last_total_text, worker[t].sid))
    => /\ fate'[worker[t].chunk.id] = "same_total"
       /\ worker'[t].pc = "get"
       /\ UNCHANGED << transcript, appended, dispatched, callbacks, _recent_texts,
                       _last_sent_text, _last_total_text >>

MaxTextLen == 3
SmallTexts == UNION {[1..n -> {"a", " "}] : n \in 0..MaxTextLen}

\* T = C \o (whitespace) \o x where x does not start with whitespace
IsTrimmedRest(C, T, x) ==
  /\ Len(C) + Len(x) <= Len(T)
  /\ \A i \in 1..Len(C) : T[i] = C[i]
  /\ \A i \in (Len(C) + 1)..(Len(T) - Len(x)) : IsSpace(T[i])
  /\ \A i \in 1..Len(x) : x[i] = T[Len(T) - Len(x) + i]
  /\ x # << >> => ~IsSpace(x[1])

\* the claimed increment of T against C: x is the increment
IsClaimedIncrement(C, T, x) ==
  IF C # None /\ Len(T) > Len(C) /\ (\A i \in 1..Len(C) : T[i] = C[i])
  THEN IsTrimmedRest(C, T, x)
  ELSE x = T

\* the text of the last utterance of session s
LastText(s) == transcript[s][Len(transcript[s])].text

\* C19: for a non-empty result T and a cumulative text C (absent, or a text
\* other than T), the increment is T without the prefix C and without the
\* whitespace that follows it when T is longer than C and starts with C, and
\* the whole of T otherwise: for all small texts, for the example, and for
\* every utterance the worker appends.
C19_IncrementIsTrimmedSuffix ==
  /\ [](\A T \in SmallTexts \ {<< >>} : \A C \in (SmallTexts \ {<< >>, T}) \cup {None} :
         IsClaimedIncrement(C, T, Increment(C, T)))
  /\ [](Increment(OHAYOU, OHAYOU \o GOZAIMASU) = GOZAIMASU)
  /\ [][\A t \in DOMAIN worker :
          Delivered(t) /\ fate'[worker[t].chunk.id] = "accepted" =>
            IsClaimedIncrement(TextOf(_last_total_text, worker[t].sid),
                               Strip(worker[t].result),
                               LastText(worker[t].sid)')]_vars

C19_Witness ==
  /\ Len(completed["s1"]) = 3
  /\ completed["s1"][1].text = OHAYOU
  /\ completed["s1"][2].text = OHAYOU \o GOZAIMASU
  /\ completed["s1"][3].text = OHAYOU \o <<" ">> \o GENKI
  /\ Len(transcript["s1"]) = 3
  /\ transcript["s1"][2].text = GOZAIMASU
  /\ LastText("s1") = OHAYOU \o <<" ">> \o GENKI

\* the parts R and S of the scenarios' cumulative results
ScenarioParts == {OHAYOU, GOZAIMASU, KONNICHIHA, OGENKIDESUKA, UPPER_AB, LOWER_AB}

\* content the filter lets through as it is
Acceptable(x) == x # << >> /\ _filter_transcription(x) = x

TextsOf(l) == [i \in 1..Len(l) |-> l[i].text]

\* the chunks 1, 2, 3 of s1 were transcribed in that order with results
\* R, R+S, R+S and every result has been reconciled
ThreeDelivered(R, S) ==
  /\ Len(completed["s1"]) = 3
  /\ \A i \in 1..3 : completed["s1"][i].id = i
  /\ TextsOf(completed["s1"]) = <<R, R \o S, R \o S>>
  /\ \A t \in DOMAIN worker : worker[t].pc # "result"

Texts(s) == {transcript[s][i].text : i \in 1..Len(transcript[s])}

\* none of the filter's other rules (prompt, repetition, loop, known
\* hallucination) applies to the trimmed text
NoOtherRule(cleaned) ==
  /\ cleaned # << >>
  /\ cleaned # BASE_PROMPT
  /\ ~(Len(cleaned) > 5 /\ Cardinality(CharsOf(cleaned)) = 1)
  /\ ~(Len(cleaned) > 10
       /\ SubSeq(cleaned, 1, Len(cleaned) \div 2)
            = SubSeq(cleaned, Len(cleaned) \div 2 + 1, Len(cleaned)))
  /\ ~Contains(cleaned, HALLUCINATION_THANKS)
  /\ ~Contains(cleaned, HALLUCINATION_SUBSCRIBE)

\* a filler with text before it, after it, or both
Embedded ==
  {a \o <<"ten", "so", "u">> : a \in AIZUCHI}
    \cup {<<"de", "mo">> \o a : a \in AIZUCHI}
    \cup {<<"de", "mo">> \o a \o <<"ten">> : a \in AIZUCHI}

\* C21: the filter rejects a text that is, once trimmed, exactly a filler token
\* and lets through a longer text of which a filler is only a part when no
\* other rule applies; no utterance of the transcript is a bare filler.
C21_OnlyBareFillerRejected ==
  /\ \A a \in AIZUCHI :
       /\ _filter_transcription(a) = None
       /\ _filter_transcription(<<" ">> \o a \o <<" ">>) = None
  /\ \A x \in Embedded \cup {HAI_SOUDESUNE} :
       x \notin AIZUCHI /\ NoOtherRule(x) => _filter_transcription(x) = x
  /\ \A s \in Sessions : Texts(s) \cap AIZUCHI = {}

C21_Witness ==
  /\ \E c \in ChunkIds : fate[c] = "filtered"
  /\ \E i \in 1..Len(completed["s1"]) : completed["s1"][i].text = HAI
  /\ Texts("s1") = {HAI_SOUDESUNE}
  /\ TextsOf(completed["s1"]) = <<HAI_SOUDESUNE, HAI>>

\* C22 as stated: "テストテスト" is rejected by the filter as a loop and is never
\* appended to the transcript.
C22_TestTestRejected ==
  /\ _filter_transcription(TESTTEST) = None
  /\ \A s \in Sessions : TESTTEST \notin Texts(s)

\* C22 amended: a text of more than 10 characters whose first half equals its
\* second half, such as "テストテスト" twice, is rejected by the filter and never
\* appended, and so is a text of 6 equal characters; "テストテスト" itself, of 6
\* characters, passes the filter.
C22_LongLoopRejected ==
  /\ _filter_transcription(TESTTEST_TWICE) = None
  /\ _filter_transcription(SAME_SIX) = None
  /\ _filter_transcription(TESTTEST) = TESTTEST
  /\ \A s \in Sessions : Texts(s) \cap {TESTTEST_TWICE, SAME_SIX} = {}
  /\ \A c \in ChunkIds :
       (/\ home[c] = "s1"
        /\ \E i \in 1..Len(completed["s1"]) :
             /\ completed["s1"][i].id = c
             /\ completed["s1"][i].text = TESTTEST
             /\ \A j \in 1..(i - 1) : completed["s1"][j].text = None
        /\ fate[c] \notin {"transcribed"})
       => fate[c] \in {"accepted", "notified"}

C22_Witness ==
  /\ TextsOf(transcript["s1"]) = <<TESTTEST>>
  /\ TextsOf(completed["s1"]) = <<TESTTEST_TWICE, TESTTEST>>
  /\ fate[1] = "filtered"

\* C23: a chunk of fewer than 4000 bytes is discarded before it is queued: no
\* queue holds such a chunk, no worker holds one, and none is in a provider call.
C23_SmallNeverQueued ==
  /\ \A s \in DOMAIN queues : \A i \in 1..Len(queues[s]) : ~queues[s][i].small
  /\ \A t \in DOMAIN worker : ~worker[t].chunk.small

\* the text repeats, for the speaker, one of the last 10 utterances of stored
IsDuplicate(stored, text, speaker) ==
  \E i \in 1..Len(stored) :
    /\ i > Len(stored) - 10
    /\ stored[i].speaker_id = speaker
    /\ \/ _normalize_text(stored[i].text) = _normalize_text(text)
       \/ Strip(stored[i].text) = Strip(text)

\* the text worker t hands to the store when it is resumed with its result
PassedText(t) ==
  _filter_transcription(Increment(TextOf(_last_total_text, worker[t].sid),
                                  Strip(worker[t].result)))

Get(d, s) == IF s \in DOMAIN d THEN {d[s]} ELSE {}

\* the manager's state of conversation s: queue contents, worker tasks,
\* cumulative text, last-accepted text and dedup ring
PipelineOf(s) ==
  << Get(queues, s), Get(tasks, s), Get(_last_total_text, s),
     Get(_last_sent_text, s), Get(_recent_texts, s) >>

\* the workers of conversation s and where they are
WorkersOf(s) == {<<t, worker[t]>> : t \in {u \in DOMAIN worker : worker[u].sid = s}}

\* this step is an enqueue for s, a step of a worker of s, or a stop of s
StepOf(s) ==
  \/ nextId' # nextId /\ home'[nextId] = s
  \/ WorkersOf(s)' # WorkersOf(s)
  \/ \E st \in stops' \ stops : st.sid = s
  \/ \E st \in stops \ stops' : st.sid = s

\* a worker of s is in a provider call or in a backoff sleep
Busy(s) ==
  \E u \in DOMAIN worker :
    worker[u].sid = s /\ Running(u) /\ worker[u].pc \in {"transcribe", "sleep"}

Dequeues(s, t) ==
  /\ worker[t].sid = s /\ worker[t].pc = "get"
  /\ \/ worker'[t].chunk = Head(ListOf(queues, s))
     \/ fate'[Head(ListOf(queues, s)).id] = "skipped"

\* the step is the requeue of the chunk worker t holds after a failed attempt
Requeues(s, t) ==
  /\ worker[t].sid = s /\ worker[t].pc = "sleep" /\ worker'[t].pc = "get"
  /\ requeued'[worker[t].chunk.id] = requeued[worker[t].chunk.id] + 1

\* C26: chunks leave the queue of a conversation in the order they were put
\* into it: a get takes the oldest queued chunk and leaves the others in
\* place, an enqueue adds at the tail (a full queue loses its oldest chunk),
\* and a retried chunk is re-inserted at the tail with its retry count, behind
\* every chunk queued at that moment, so those chunks are taken (and get their
\* provider attempt) before the retried chunk's next attempt.
C26_QueueIsFifoRetryAtTail ==
  [][\A s \in DOMAIN queues' :
       \E q \in {ListOf(queues, s)} : \E q2 \in {queues'[s]} :
         /\ Len(q2) < Len(q) =>
              /\ q2 = Tail(q)
              /\ \E t \in DOMAIN worker : Dequeues(s, t)
         /\ (Len(q2) = Len(q) /\ q2 # q) =>
              /\ Len(q) = max_queue_size
              /\ q2 = Tail(q) \o <<q2[Len(q2)]>>
              /\ q2[Len(q2)].id = nextId /\ q2[Len(q2)].retries = 0
              /\ fate'[Head(q).id] = "evicted"
         /\ Len(q2) > Len(q) =>
              /\ q2 = q \o <<q2[Len(q2)]>>
              /\ \/ q2[Len(q2)].id = nextId /\ q2[Len(q2)].retries = 0
                 \/ \E t \in DOMAIN worker :
                      /\ Requeues(s, t)
                      /\ q2[Len(q2)].id = worker[t].chunk.id
                      /\ q2[Len(q2)].retries = worker[t].chunk.retries
                      /\ q2[Len(q2)].retries >= 1
         /\ \A t \in DOMAIN worker :
              Requeues(s, t) => q2 = q \o <<worker[t].chunk>>]_vars

\* a chunk put after the retried one was accepted while the older chunk,
\* requeued behind it, waits in the queue for its next attempt
C26_Witness ==
  \E c \in ChunkIds, d \in ChunkIds :
    /\ c < d /\ home[c] = "s1" /\ home[d] = "s1"
    /\ requeued[c] >= 1 /\ InQueue(c) /\ attempts[c] = 1
    /\ fate[d] = "notified" /\ attempts[d] = 1

\* worker t executes inside the `async with` of _process_chunk for conversation s
\* (a cancelled task is resumed only to raise CancelledError out of the section)
InSection(s, t) ==
  /\ Running(t) /\ worker[t].sid = s
  /\ worker[t].pc \in {"transcribe", "result", "broadcast", "sleep"}

\* what the locked section of conversation s reads and writes
ReconcileState(s) ==
  << Get(_last_total_text, s), Get(_last_sent_text, s), Get(_recent_texts, s),
     transcript[s] >>

\* C27: for every configured concurrency at most one worker of a conversation
\* executes inside the locked section, that worker is the holder of the
\* conversation's lock, and while it is inside no other worker changes the
\* conversation's cumulative text, last-accepted text, dedup ring or stored
\* transcript: the reconcile-filter-append steps of two workers never interleave.
C27_OneWorkerInSection ==
  /\ [](\A s \in Sessions :
          /\ Cardinality({t \in DOMAIN worker : InSection(s, t)}) <= 1
          /\ \A t \in DOMAIN worker :
               InSection(s, t) => s \in DOMAIN session_locks /\ session_locks[s] = t)
  /\ [][\A s \in Sessions : \A t \in DOMAIN worker :
          (InSection(s, t) /\ ReconcileState(s)' # ReconcileState(s))
            => worker'[t] # worker[t]]_vars

\* two workers of one conversation: one has the provider's result in hand, the
\* other holds the next chunk and waits for the lock
C27_Witness ==
  /\ concurrency = 2
  /\ \E t \in DOMAIN worker, u \in DOMAIN worker :
       /\ InSection("s1", t) /\ worker[t].pc = "result"
       /\ Running(u) /\ worker[u].sid = "s1" /\ worker[u].pc = "lock"
       /\ worker[u].chunk.id > worker[t].chunk.id

\* the step is the return of worker t of conversation s from the reconcile
\* section with the non-empty provider result it was resumed with
Evaluates(s, t) ==
  /\ Running(t) /\ worker[t].sid = s /\ worker[t].pc = "result"
  /\ worker[t].result # None /\ Strip(worker[t].result) # << >>
  /\ worker'[t].pc # "result"
  /\ ~worker'[t].cancelled

\* C28: after every successful provider call with a non-empty result T the
\* conversation's cumulative text is T (trimmed) when the worker leaves the
\* reconcile section, on every path, the store's error included.
C28_CumulativeIsLastResult ==
  [][\A s \in Sessions : \A t \in DOMAIN worker :
       Evaluates(s, t) => TextOf(_last_total_text, s)' = Strip(worker[t].result)]_vars

\* the provider results of conversation s that went through the reconcile
\* section with a non-empty text and a store that returned
Evaluated(s) ==
  {i \in 1..Len(completed[s]) :
     /\ completed[s][i].text # None /\ Strip(completed[s][i].text) # << >>
     /\ fate[completed[s][i].id] \notin {"transcribed", "store_error"}}

LatestEvaluated(s) ==
  CHOOSE i \in Evaluated(s) : \A j \in Evaluated(s) : j <= i

\* C29: the length of a conversation's cumulative text never decreases while
\* the conversation is not stopped (the cumulative text is the longest raw
\* result seen so far).
C29_CumulativeNeverShrinks ==
  [][\A s \in Sessions :
       (s \in DOMAIN _last_total_text /\ s \in DOMAIN _last_total_text')
         => Len(_last_total_text'[s]) >= Len(_last_total_text[s])]_vars

\* C29 (amended): the cumulative text of a conversation that is not stopped is
\* the latest non-empty raw result (trimmed) that went through the reconcile
\* section with a store that returned, whatever its length; it is absent
\* before the first one.
C29_CumulativeIsLatestResult ==
  \A s \in Sessions :
    IF Evaluated(s) = {}
    THEN TextOf(_last_total_text, s) = None
    ELSE TextOf(_last_total_text, s) = Strip(completed[s][LatestEvaluated(s)].text)

\* the cumulative text is the latest result and is shorter than an earlier one
C29_Witness ==
  /\ Evaluated("s1") # {}
  /\ \E i \in Evaluated("s1") :
       /\ i < LatestEvaluated("s1")
       /\ Len(Strip(completed["s1"][i].text)) > Len(_last_total_text["s1"])
  /\ _last_total_text["s1"] = Strip(completed["s1"][LatestEvaluated("s1")].text)

\* the step is the return of worker t of conversation s from the reconcile
\* section with an increment equal to the conversation's last-accepted text
RepeatsLastSent(s, t) ==
  /\ Evaluates(s, t)
  /\ TextOf(_last_sent_text, s) # None
  /\ \E new_text \in {Increment(TextOf(_last_total_text, s), Strip(worker[t].result))} :
       new_text # None /\ Strip(new_text) = TextOf(_last_sent_text, s)

\* the pass of the stop counter in which the chunk of the i-th utterance of
\* conversation s was transcribed
EpochOf(s, i) ==
  CHOOSE n \in 0..MaxStops :
    \E k \in 1..Len(completed[s]) :
      completed[s][k].id = appended[s][i] /\ completed[s][k].stops = n

\* utterances i and i+1 of conversation s have the same text
Twins(s, i) == transcript[s][i].text = transcript[s][i + 1].text

\* C30: an increment equal to the last-accepted text ends in noChange (nothing
\* is appended, no callback is dispatched, ring and last-accepted text keep
\* their values), so no two consecutive utterances of a conversation have the
\* same text.
C30_NoConsecutiveTwins ==
  \A s \in Sessions : \A i \in 1..(Len(transcript[s]) - 1) : ~Twins(s, i)

\* C30 (amended): an increment equal to the last-accepted text ends in noChange,
\* and no two consecutive utterances of one speaker have the same text; two
\* consecutive utterances with the same text are of different speakers, with a
\* stop of the conversation or an error of the store between them.
C30_RepeatIsNoChange ==
  /\ [][\A s \in Sessions : \A t \in DOMAIN worker :
          RepeatsLastSent(s, t) =>
            /\ fate'[worker[t].chunk.id] = "same_sent"
            /\ worker'[t].pc = "get"
            /\ UNCHANGED << store, appended, dispatched, callbacks,
                            _recent_texts, _last_sent_text >>]_vars
  /\ [](\A s \in Sessions : \A i \in 1..(Len(transcript[s]) - 1) :
          Twins(s, i) =>
            /\ transcript[s][i].speaker_id # transcript[s][i + 1].speaker_id
            /\ \/ EpochOf(s, i) < EpochOf(s, i + 1)
               \/ fate[appended[s][i]] = "store_error")

\* a repeat of the last-accepted text was dropped, and later the same text of
\* the other speaker was appended after a stop
C30_Witness ==
  /\ \E c \in ChunkIds : fate[c] = "same_sent"
  /\ Len(transcript["s1"]) = 2 /\ Twins("s1", 1)
  /\ EpochOf("s1", 1) < EpochOf("s1", 2)

\* the normalized forms of the first n utterances of s
RECURSIVE KeysOf(_, _)
KeysOf(s, n) ==
  IF n = 0 THEN << >>
  ELSE Append(KeysOf(s, n - 1), _normalize_text(transcript[s][n].text))

\* the step appends an utterance to the transcript of conversation s
Appends(s) == Len(transcript'[s]) = Len(transcript[s]) + 1

\* what the ring does: at most 10 keys, a new key only with an append the store
\* confirmed (the oldest of 10 leaves), and an increment whose key is in the
\* ring leaves the store as it is
RingRules ==
  /\ [](\A s \in DOMAIN _recent_texts : Len(_recent_texts[s]) <= RECENT_LIMIT)
  /\ [][\A s \in Sessions :
          /\ ListOf(_recent_texts, s)' # ListOf(_recent_texts, s) =>
               /\ Appends(s)
               /\ ListOf(_recent_texts, s)' =
                    LastN(Append(ListOf(_recent_texts, s),
                                 _normalize_text(transcript'[s][Len(transcript'[s])].text)),
                          RECENT_LIMIT)
          /\ \A t \in DOMAIN worker :
               (/\ Evaluates(s, t)
                /\ \E new_text \in {Increment(TextOf(_last_total_text, s),
                                              Strip(worker[t].result))} :
                     /\ new_text # None
                     /\ \E key \in {_normalize_text(new_text)} :
                          key = << >> \/ InList(key, ListOf(_recent_texts, s)))
               => UNCHANGED << store, appended, dispatched, _recent_texts,
                               _last_sent_text >>]_vars

\* C31: the ring never holds more than 10 keys, gains a key only on an append
\* the store confirmed, and rejects an increment whose key is empty or in the
\* ring without a store call; hence no appended text has the normalized form
\* of one of the 10 texts appended before it.
C31_NoRepeatOfLastTen ==
  /\ RingRules
  /\ [][\A s \in Sessions :
          Appends(s) =>
            ~InList(_normalize_text(transcript'[s][Len(transcript'[s])].text),
                    LastN(KeysOf(s, Len(transcript[s])), RECENT_LIMIT))]_vars

\* the five rules of the claim, each stated on the trimmed text
IsBasePrompt(c) == c = BASE_PROMPT
IsBareFiller(c) == \E a \in AIZUCHI : c = a
IsOneCharRun(c) == Len(c) > 5 /\ \A i \in 1..Len(c) : c[i] = c[1]
IsLoop(c) ==
  Len(c) > 10 /\ \E n \in 1..Len(c) : SubSeq(c, 1, n) \o SubSeq(c, 1, n) = c
HasHallucination(c) ==
  \E p \in {HALLUCINATION_THANKS, HALLUCINATION_SUBSCRIBE} :
    \E i \in 1..Len(c), j \in 1..Len(c) : SubSeq(c, i, j) = p
FilterRejects(c) ==
  IsBasePrompt(c) \/ IsBareFiller(c) \/ IsOneCharRun(c) \/ IsLoop(c)
    \/ HasHallucination(c)

\* the step takes the increment of worker t to the utterance filter
ReachesFilter(s, t) ==
  /\ Evaluates(s, t)
  /\ fate'[worker[t].chunk.id] \in {"filtered", "store_refuses", "accepted"}

\* C32: the filter rejects the increment exactly when its trimmed text is the
\* base prompt, a bare filler, more than 5 identical characters, a text of more
\* than 10 characters whose halves are equal, or holds a hallucination phrase;
\* otherwise it returns the trimmed text, which is what the store is given.
C32_FilterRejectsExactlyTheRules ==
  [][\A s \in Sessions : \A t \in DOMAIN worker :
       ReachesFilter(s, t) =>
         \E new_text \in {Increment(TextOf(_last_total_text, s), Strip(worker[t].result))} :
           /\ fate'[worker[t].chunk.id] = "filtered" <=> FilterRejects(Strip(new_text))
           /\ fate'[worker[t].chunk.id] = "filtered" => UNCHANGED store
           /\ fate'[worker[t].chunk.id] = "accepted" =>
                transcript'[s] = Append(transcript[s],
                                        Utterance(new_text, worker[t].chunk.speaker,
                                                  worker[t].chunk.speaker_name))]_vars

\* a text was rejected by a rule, and the texts next to the rules' edges
\* (5 identical characters, 10 characters in two equal halves) were appended
C32_Witness ==
  /\ \E c \in ChunkIds : fate[c] = "filtered"
  /\ \E i \in 1..Len(transcript["s1"]) : transcript["s1"][i].text = SAME_FIVE
  /\ \E i \in 1..Len(transcript["s1"]) : transcript["s1"][i].text = FIVE \o FIVE

\* the step ends the work of worker t on its chunk without a retry: the worker
\* waits for the next chunk with the lock released, the chunk is in no queue
\* and its counts of attempts, failures, delays and requeues are as before
BackToIdle(s, t) ==
  /\ worker'[t] = NewWorker(s)
  /\ ~LockHeld(s)'
  /\ ~InQueue(worker[t].chunk.id)'
  /\ UNCHANGED << queues, attempts, errors, delays, requeued >>

\* the step changes nothing a listener or the store could see, and neither the
\* ring nor the last-accepted text
NothingAccepted(s) ==
  /\ UNCHANGED << store, appended, dispatched, callbacks, _last_sent_text >>
  /\ ListOf(_recent_texts, s)' = ListOf(_recent_texts, s)

\* C33: when the store returns none for an increment that passed the
\* pipeline's own checks, ring and last-accepted text are unchanged, nothing is
\* broadcast, no callback is dispatched, the chunk is neither retried nor
\* requeued and the worker waits for the next chunk.
C33_StoreRefusalIsNoOp ==
  [][\A s \in Sessions : \A t \in DOMAIN worker :
       (/\ Evaluates(s, t)
        /\ fate'[worker[t].chunk.id] \in {"store_refuses", "accepted"}
        /\ IsDuplicate(transcript[s], PassedText(t), worker[t].chunk.speaker))
       => NothingAccepted(s) /\ BackToIdle(s, t)]_vars

\* the store refused a chunk's text and the worker went on to the next chunk,
\* whose text was appended
C33_Witness ==
  \E c \in ChunkIds, d \in ChunkIds :
    /\ c < d /\ fate[c] = "store_refuses" /\ attempts[c] = 1 /\ requeued[c] = 0
    /\ fate[d] = "notified"

\* the step is the return of worker t of conversation s from the section with
\* a client result that is None, empty or blank
EvaluatesSilence(s, t) ==
  /\ Running(t) /\ worker[t].sid = s /\ worker[t].pc = "result"
  /\ worker[t].result = None \/ Strip(worker[t].result) = << >>
  /\ worker'[t].pc # "result"
  /\ ~worker'[t].cancelled

\* C34: an empty or whitespace-only provider result sends the worker straight
\* back to waiting for a chunk: nothing is appended, cumulative text,
\* last-accepted text and ring are unchanged, the chunk is neither retried nor
\* requeued.
C34_SilenceChangesNothing ==
  [][\A s \in Sessions : \A t \in DOMAIN worker :
       EvaluatesSilence(s, t) =>
         /\ UNCHANGED << _last_total_text, _last_sent_text, _recent_texts >>
         /\ NothingAccepted(s)
         /\ BackToIdle(s, t)]_vars

\* after an accepted text a chunk of silence was resolved, with the pipeline's
\* texts still in place and one attempt made
C34_Witness ==
  \E c \in ChunkIds, d \in ChunkIds :
    /\ c < d /\ fate[c] = "notified" /\ fate[d] = "silence"
    /\ attempts[d] = 1 /\ requeued[d] = 0 /\ ~InQueue(d)
    /\ TextOf(_last_total_text, "s1") = OHAYOU
    /\ \E k \in 1..Len(completed["s1"]) :
         completed["s1"][k].id = d /\ completed["s1"][k].text = None

\* a provider call for chunk c has succeeded (with a text or with nothing)
ProviderSucceeded(c) ==
  \E s \in Sessions : \E k \in 1..Len(completed[s]) : completed[s][k].id = c

\* C35: a chunk whose provider call succeeded is never retried, whatever
\* becomes of its content: its retry count stays, it is not put back into the
\* queue and it is not submitted to the provider again.
C35_NoRetryAfterSuccess ==
  /\ [](\A c \in ChunkIds : ProviderSucceeded(c) => ~InQueue(c))
  /\ [][\A c \in ChunkIds :
          ProviderSucceeded(c) =>
            /\ attempts'[c] = attempts[c]
            /\ requeued'[c] = requeued[c]
            /\ delays'[c] = delays[c]
            /\ \A t \in DOMAIN worker :
                 (worker[t].chunk.id = c /\ worker'[t].chunk.id = c)
                   => worker'[t].chunk.retries = worker[t].chunk.retries]_vars

\* a chunk failed once and was requeued, its second provider call succeeded
\* and its content was rejected; a content rejected at the first call
C35_Witness ==
  /\ \E c \in ChunkIds :
       /\ ProviderSucceeded(c) /\ requeued[c] = 1 /\ attempts[c] = 2
       /\ fate[c] \in {"silence", "same_total", "same_sent", "in_ring",
                       "filtered", "store_refuses"}
  /\ \E c \in ChunkIds :
       /\ ProviderSucceeded(c) /\ attempts[c] = 1 /\ fate[c] = "notified"

\* a worker has taken chunk c from the queue and not yet let go of it
Held(c) == \E t \in DOMAIN worker : worker[t].pc # "done" /\ worker[t].chunk.id = c

\* the utterance is in the transcript (and, unless a stop cancelled the worker
\* first, broadcast)
Accepted(c) == fate[c] \in {"accepted", "notified"}
Rejected(c) ==
  fate[c] \in {"skipped", "silence", "failed", "same_total", "same_sent",
               "empty_key", "in_ring", "filtered", "store_refuses"}
Retrying(c) == fate[c] = "queued" /\ requeued[c] >= 1 /\ InQueue(c)
Abandoned(c) == fate[c] = "abandoned"
\* the retried chunk found the queue full (_requeue_chunk, lines 205-209)
RetryDropped(c) == fate[c] = "requeue_dropped"
\* the conversation was stopped while the chunk was with the worker
LostToStop(c) == fate[c] \in {"lost_in_flight", "lost_in_backoff"}

AllQueuesEmpty == \A s \in DOMAIN queues : queues[s] = << >>

RaisesAfterProvider(s, t) ==
  /\ Running(t) /\ worker[t].sid = s /\ worker[t].pc = "result"
  /\ fate'[worker[t].chunk.id] = "store_error"

InBackoff(s, t) == Running(t) /\ worker[t].sid = s /\ worker[t].pc = "sleep"

\* the provider calls made so far for chunks of conversation s
Submissions(s) == [c \in ChunkIds |-> IF home[c] = s THEN attempts[c] ELSE 0]

\* C38: the per-conversation lock is held from the start of a chunk's provider
\* call until its outcome, the backoff sleep and the requeue included: between
\* a failed attempt and the requeue no other chunk of the conversation is sent
\* to the provider or reconciled, for one worker and for two.
C38_LockHeldThroughBackoff ==
  /\ [](\A s \in Sessions : \A t \in DOMAIN worker :
          InSection(s, t) =>
            /\ s \in DOMAIN session_locks /\ session_locks[s] = t
            /\ \A u \in DOMAIN worker \ {t} : ~InSection(s, u))
  /\ [][\A s \in Sessions : \A t \in DOMAIN worker :
          InBackoff(s, t) =>
            /\ Submissions(s)' = Submissions(s)
            /\ ReconcileState(s)' = ReconcileState(s)
            /\ completed' = completed
            /\ (worker'[t].pc # "sleep" =>
                  /\ ~LockHeld(s)' /\ worker'[t] = NewWorker(s)
                  /\ \E c \in {worker[t].chunk.id} : InQueue(c)' \/ RetryDropped(c)')]_vars

\* two workers: one sleeps out the backoff of a failed chunk with the lock in
\* hand, the other holds the next chunk and waits for the lock
C38_Witness ==
  /\ concurrency = 2
  /\ \E t \in DOMAIN worker, u \in DOMAIN worker :
       /\ InBackoff("s1", t) /\ session_locks["s1"] = t
       /\ Running(u) /\ worker[u].sid = "s1" /\ worker[u].pc = "lock"
       /\ worker[u].chunk.id # worker[t].chunk.id

\* last-accepted text of conversation s is set
LastAcceptedSet(s) == s \in DOMAIN _last_sent_text

\* the step is a store-confirmed append for conversation s: the store returned
\* an utterance to a worker of s, whose text is the new last-accepted text and
\* whose key is the ring's new last entry
ConfirmedAppend(s) ==
  /\ \E t \in DOMAIN worker :
       /\ Running(t) /\ worker[t].sid = s /\ worker[t].pc = "result"
       /\ worker'[t].pc = "broadcast"
  /\ Len(transcript'[s]) = Len(transcript[s]) + 1
  /\ LastAcceptedSet(s)'
  /\ \E u \in {transcript'[s][Len(transcript'[s])]} : _last_sent_text'[s] = u.text
  /\ ListOf(_recent_texts, s)' =
       RingPush(ListOf(_recent_texts, s), _normalize_text(_last_sent_text'[s]))

\* the step is a stop of conversation s: ring and last-accepted text are gone
RemovedByStop(s) ==
  /\ nstops' = nstops + 1
  /\ s \notin DOMAIN _recent_texts' /\ s \notin DOMAIN _last_sent_text'

\* C39: for every conversation, last-accepted text is set if and only if the
\* dedup ring is non-empty, and then the newest ring entry is the normalized
\* last-accepted text; the two change only together, on a store-confirmed
\* append, and are removed only together, by stop.
C39_RingAndLastAcceptedAgree ==
  /\ [](\A s \in Sessions :
          /\ LastAcceptedSet(s) <=> ListOf(_recent_texts, s) # << >>
          /\ LastAcceptedSet(s) =>
               \E l \in {ListOf(_recent_texts, s)} :
                 l[Len(l)] = _normalize_text(_last_sent_text[s]))
  /\ [][\A s \in Sessions :
          (\/ ListOf(_recent_texts, s)' # ListOf(_recent_texts, s)
           \/ Get(_last_sent_text, s)' # Get(_last_sent_text, s))
          => /\ ListOf(_recent_texts, s)' # ListOf(_recent_texts, s)
             /\ Get(_last_sent_text, s)' # Get(_last_sent_text, s)
             /\ ConfirmedAppend(s) \/ RemovedByStop(s)]_vars

\* the keys the pipeline has pushed into the ring of conversation s in this run
Pushed(s) == {c \in ChunkIds : home[c] = s /\ fate[c] \in {"accepted", "notified"}}

\* a conversation that began the run with nine keys or more in its ring had
\* two texts accepted (the second into a full ring, whose oldest key was
\* evicted), and then a stop removed ring and last-accepted text
C39_Witness ==
  /\ Cardinality(Pushed("s1")) >= 2
  /\ Len(transcript["s1"]) - Len(appended["s1"]) >= 9
  /\ nstops >= 1
  /\ ~LastAcceptedSet("s1") /\ "s1" \notin DOMAIN _recent_texts

\* the chunks that are in a queue or with a worker
ChunksAround ==
  UNION {{queues[s][i] : i \in 1..Len(queues[s])} : s \in DOMAIN queues}
    \cup {worker[t].chunk : t \in {u \in DOMAIN worker : worker[u].chunk.id # 0}}

\* the step appends utterance u to the transcript of conversation s for the
\* chunk that worker t holds
AppendsFor(s, t, u) ==
  /\ Running(t) /\ worker[t].sid = s /\ worker[t].pc = "result"
  /\ worker'[t].pc # "result"
  /\ transcript'[s] = Append(transcript[s], u)

\* C40: every utterance the pipeline appends to the transcript has a non-empty,
\* trimmed text that the utterance filter accepts (not the base prompt, not a
\* bare filler, not a degenerate repetition, no hallucination phrase) and
\* carries the speaker id and the speaker name of the chunk it came from, which
\* are those the chunk was enqueued with.
C40_AppendedUtteranceIsCleanAndAttributed ==
  /\ [][\A s \in Sessions :
          transcript'[s] # transcript[s] =>
            \E t \in DOMAIN worker : \E u \in {transcript'[s][Len(transcript'[s])]} :
              /\ AppendsFor(s, t, u)
              /\ u.text # << >> /\ Strip(u.text) = u.text
              /\ ~FilterRejects(u.text)
              /\ _filter_transcription(u.text) = u.text
              /\ u.speaker_id = worker[t].chunk.speaker
              /\ u.speaker_name = worker[t].chunk.speaker_name]_vars
  /\ [][\A old \in ChunksAround : \A new \in ChunksAround' :
          new.id = old.id =>
            new.speaker = old.speaker /\ new.speaker_name = old.speaker_name]_vars

\* one speaker id was recorded under two names, and both utterances are in the
\* transcript with the name of their chunk; another chunk's text was rejected
\* by the filter
C40_Witness ==
  /\ \E i \in 1..Len(transcript["s1"]), j \in 1..Len(transcript["s1"]) :
       /\ transcript["s1"][i].speaker_id = transcript["s1"][j].speaker_id
       /\ transcript["s1"][i].speaker_name = "Interviewer"
       /\ transcript["s1"][j].speaker_name = "Guest"
  /\ \E c \in ChunkIds : fate[c] = "filtered"

====
